---- MODULE Spec2Model ----
(***************************************************************************)
(* Verification model of the section-extraction core of RAG4PeerFirm:      *)
(*   - SECParser.get_item_positions   (boundary resolver)                  *)
(*   - SECParser.parse_toc            (anchor index builder)               *)
(*   - ItemExtractor.extract_item / extract_items                          *)
(*   - StructureExtractor.extract_structure / _build_hierarchy             *)
(*                                                                         *)
(* Raw markup is a sequence of lexical tokens; an offset is a 0-based      *)
(* index into that sequence, as a Python string offset is.  The tokens are *)
(*   "lt"      the character '<'                                           *)
(*   "txt"     any run of text matching no pattern                         *)
(*   "id_a"    an occurrence of  id="a"  or  name="a"   (anchor a)         *)
(*   "id_b"    an occurrence of  id="b"  or  name="b"   (anchor b)         *)
(*   "id_sig"  an occurrence of  id="signatures..."  (end marker, attr)    *)
(*   "SIG"     the text  >SIGNATURES , a marker when followed by '<'       *)
(***************************************************************************)
EXTENDS Integers, Sequences, FiniteSets, Bags, TLC

VARIABLES
    html_content,     \* raw markup of the filing (token sequence)
    toc_items,        \* anchor mapping: item id -> [anchor, title]
    positions,        \* result of get_item_positions, or NoValue
    item_result,      \* result of the last extract_item call, or NoValue
    req_item,         \* item id passed to the last extract_item call
    pc,               \* position of the driver
    item_numbers,     \* extract_items / process_filing: the requested sections
    idx,              \* number of loop iterations completed
    extracted_items,  \* extract_items: item id -> extracted data or {'error': ...}
    filing_record,    \* process_filing: the filing's log record
    saved_items,      \* item JSON files written by save_item_json
    saved_xtr,        \* *_xtr.json outline files written by save_json
    doc_tables,       \* parse_toc: the <table> elements of the document, in order
    doc_blocks,       \* parse_toc: the h1-h4/p/div elements of the document, in order
    toc_result,       \* parse_toc: the returned mapping, None, or NoValue before the call
    section_divs,     \* extract_structure: the <div> elements of the section, in document order
    loose_text,       \* extract_structure: section text outside every <div>
    elements,         \* _build_hierarchy: the flat list of heading / body elements
    elem_idx,         \* _build_hierarchy: number of elements processed
    nodes,            \* outline nodes created so far (a node is named by its index)
    heading_stack,    \* _build_hierarchy: stack of open headings (node indices)
    structure,        \* root list of the outline (node indices)
    filter_text,      \* _strip_headers_footers: the text argument (word sequence)
    filter_pages,     \* _strip_headers_footers: pages, the non-empty pages of the text
    cleaned_pages,    \* _strip_headers_footers: cleaned_pages
    filter_result,    \* _strip_headers_footers: the returned text, or NoValue
    toc_row,          \* _parse_toc_from_table: the row at hand, [text, hrefs, id]
    row_entry,        \* _parse_toc_from_table: what the row adds to toc_items, or NoValue
    num_tasks,        \* extract: number of (identifier, year, filing type) tasks
    max_workers,      \* extract: the max_workers argument
    main_pc,          \* extract: position of the calling thread
    task_pc,          \* process_filing: position of each task
    task_arg,         \* process_filing: outcome of the step a logger call reports
    task_items,       \* process_filing: sections handled so far by each task
    session_filings,  \* ExtractionLogger.session_data['filings']
    csv_rows,         \* calls of _write_csv_log_entry: the task, and whether the row was written
    logger_lock,      \* ItemXtractor.logger_lock: the thread holding it, or Free
    lock,             \* ExtractionLogger.lock: the thread holding it, or Free
    report,           \* what generate_report counted, or NoValue
    item_returns,     \* process_filing: what each call of _extract_and_save_item returned
    log_warnings,     \* warnings written to the log by _extract_and_save_item
    sorted_keys       \* get_item_positions: the keys of toc_items, in dict order before the sort

posVars == <<html_content, toc_items, positions, item_result, req_item, pc>>
itemVars == <<item_numbers, idx, extracted_items, filing_record, saved_items, saved_xtr>>

tocVars == <<doc_tables, doc_blocks, toc_result>>

outlineVars == <<section_divs, loose_text, elements, elem_idx, nodes, heading_stack, structure>>

filterVars == <<filter_text, filter_pages, cleaned_pages, filter_result>>

rowVars == <<toc_row, row_entry>>

runVars == <<num_tasks, max_workers, main_pc, task_pc, task_arg, task_items, session_filings,
             csv_rows, logger_lock, lock, report>>

callVars == <<item_returns, log_warnings>>

vars == <<posVars, itemVars, tocVars, outlineVars, filterVars, rowVars, runVars, callVars,
          sorted_keys>>

None == "None"
NoValue == [tag |-> "none"]

(***************************************************************************)
(* Bounds of the model.                                                    *)
(***************************************************************************)
MaxDocLen == 4
\* extract_items / process_filing runs: document length and request length
MaxItemsDocLen == 2
MaxRequested == 2
\* parse_toc runs: rows per table and block elements per document
MaxRows == 2
MaxBlocks == 2
\* extract_structure runs: divs per section; _build_hierarchy runs: elements
MaxDivs == 3
MaxElems == 4
\* words at each end of a page, and ordinary words in its middle
MaxEdge == 2
MaxCore == 9
\* links of a table row
MaxLinks == 2
\* tasks of one run
MaxTasks == 2

Tokens == {"lt", "txt", "id_a", "id_b", "id_sig", "SIG"}
Anchors == {"a", "b"}

\* Item identifiers are character sequences: "1A", "2", "10".
ItemIds == { <<"1", "A">>, <<"2">>, <<"1", "0">> }
\* An identifier that is never a key of the mapping.
AbsentItem == <<"7">>

RECURSIVE SeqsUpTo(_, _)
SeqsUpTo(S, n) ==
    IF n = 0 THEN { <<>> }
    ELSE LET shorter == SeqsUpTo(S, n - 1)
         IN  shorter \cup { Append(s, x) : s \in {t \in shorter : Len(t) = n - 1}, x \in S }

Documents == SeqsUpTo(Tokens, MaxDocLen)

AnchorEntry(item, anchor) == [anchor |-> anchor, title |-> <<"Item", item>>]

TocMappings ==
    UNION { { [i \in D |-> AnchorEntry(i, f[i])] : f \in [D -> Anchors \cup {None}] }
            : D \in SUBSET ItemIds }

(***************************************************************************)
(* String primitives of the boundary resolver.                             *)
(***************************************************************************)
Min(S) == CHOOSE x \in S : \A y \in S : x <= y
Max(S) == CHOOSE x \in S : \A y \in S : x >= y

\* text[start:end] of Python, 0 <= start, end clipped to the length
Slice(text, start, end) ==
    IF end <= start THEN <<>> ELSE SubSeq(text, start + 1, IF end > Len(text) THEN Len(text) ELSE end)

\* text.rfind('<', 0, end): highest offset below end holding '<', or -1
rfind_lt(text, end) ==
    LET hits == { p \in 0 .. (end - 1) : p < Len(text) /\ text[p + 1] = "lt" }
    IN  IF hits = {} THEN -1 ELSE Max(hits)

\* re.search(rf'(?:id|name)\s*=\s*[\'\"]{anchor}[\'\"]', text, re.IGNORECASE):
\* offset of the leftmost match, or -1
AnchorTok(anchor) == IF anchor = "a" THEN "id_a" ELSE IF anchor = "b" THEN "id_b" ELSE "id_none"

anchor_search(anchor, text) ==
    LET hits == { p \in 0 .. (Len(text) - 1) : text[p + 1] = AnchorTok(anchor) }
    IN  IF hits = {} THEN -1 ELSE Min(hits)

\* self.end_marker_patterns, in list order.  Patterns 1-3 are id attributes
\* (signatures / exhibits / cover), patterns 4-5 are the >SIGNATURES< text.
end_marker_patterns == << "attr", "text" >>

\* compiled_pattern.search(text): offset of the leftmost match, or -1
marker_search(pattern, text) ==
    LET hits == { p \in 0 .. (Len(text) - 1) :
                    IF pattern = "attr" THEN text[p + 1] = "id_sig"
                    ELSE /\ text[p + 1] = "SIG"
                         /\ p + 2 <= Len(text)
                         /\ text[p + 2] = "lt" }
    IN  IF hits = {} THEN -1 ELSE Min(hits)

(***************************************************************************)
(* item_sort_key and sorted(toc_items.keys(), key=item_sort_key)           *)
(***************************************************************************)
Digits == {"0", "1", "2", "3", "4", "5", "6", "7", "8", "9"}
DigitVal(c) ==
    CASE c = "0" -> 0 [] c = "1" -> 1 [] c = "2" -> 2 [] c = "3" -> 3 [] c = "4" -> 4
      [] c = "5" -> 5 [] c = "6" -> 6 [] c = "7" -> 7 [] c = "8" -> 8 [] c = "9" -> 9

\* rank of a letter string: '' < 'A' < 'B' < ...
LetterRank(c) == CASE c = "" -> 0 [] c = "A" -> 1 [] c = "B" -> 2 [] c = "C" -> 3 [] OTHER -> 4

\* number of leading digits of item
RECURSIVE DigitPrefixLen(_)
DigitPrefixLen(item) ==
    IF item = <<>> \/ Head(item) \notin Digits THEN 0 ELSE 1 + DigitPrefixLen(Tail(item))

RECURSIVE DigitsToInt(_)
DigitsToInt(ds) ==
    IF ds = <<>> THEN 0 ELSE 10 * DigitsToInt(SubSeq(ds, 1, Len(ds) - 1)) + DigitVal(ds[Len(ds)])

\* a key that compares the digits as text: only the first digit counts first
item_sort_key_as_text(item) ==
    IF DigitPrefixLen(item) > 0
    THEN << DigitVal(item[1]), Len(item) >>
    ELSE << 0, 0 >>

\* re.match(r'(\d+)([A-Z]?)', item) -> (int(group 1), group 2 or '')
item_sort_key(item) ==
    LET n == DigitPrefixLen(item)
    IN  IF n > 0
        THEN << DigitsToInt(SubSeq(item, 1, n)),
                IF Len(item) > n THEN LetterRank(item[n + 1]) ELSE 0 >>
        ELSE << 0, 0 >>

KeyLess(k1, k2) == k1[1] < k2[1] \/ (k1[1] = k2[1] /\ k1[2] < k2[2])

RECURSIVE SortItems(_)
SortItems(S) ==
    IF S = {} THEN <<>>
    ELSE LET m == CHOOSE x \in S : \A y \in S \ {x} : KeyLess(item_sort_key(x), item_sort_key(y))
         IN  <<m>> \o SortItems(S \ {m})

sorted_items(toc) == SortItems(DOMAIN toc)

(***************************************************************************)
(* SECParser.get_item_positions                                            *)
(***************************************************************************)
\* the opening '<' before a match at offset pos, else the match offset itself
tag_open_or(text, pos) ==
    LET tag_open == rfind_lt(text, pos)
    IN  IF tag_open # -1 THEN tag_open ELSE pos

\* a start_pos that defaults to the document start instead of -1
start_pos_of_default0(html, anchor) ==
    IF anchor = None THEN 0
    ELSE LET anchor_start == anchor_search(anchor, html)
         IN  IF anchor_start = -1 THEN 0 ELSE tag_open_or(html, anchor_start)

\* start_pos of one item: -1 when it has no anchor or the anchor is not found
start_pos_of(html, anchor) ==
    IF anchor = None THEN -1
    ELSE LET anchor_start == anchor_search(anchor, html)
         IN  IF anchor_start = -1 THEN -1 ELSE tag_open_or(html, anchor_start)

\* end boundary of a non-last item: the next item's anchor searched in
\* html_content[start_pos:], else the document length
next_item_end(html, next_anchor, start_pos) ==
    IF next_anchor = None THEN Len(html)
    ELSE LET m == anchor_search(next_anchor, Slice(html, start_pos, Len(html)))
         IN  IF m = -1 THEN Len(html) ELSE tag_open_or(html, start_pos + m)

\* end boundary of the last item: the first pattern of end_marker_patterns
\* that matches in html_content[start_pos:], else the document length
RECURSIVE marker_end_from(_, _, _)
marker_end_from(html, start_pos, k) ==
    IF k > Len(end_marker_patterns) THEN Len(html)
    ELSE LET m == marker_search(end_marker_patterns[k], Slice(html, start_pos, Len(html)))
         IN  IF m # -1 THEN tag_open_or(html, start_pos + m)
             ELSE marker_end_from(html, start_pos, k + 1)

\* an end-marker search over the whole document instead of html_content[start_pos:]
last_item_end_whole_doc(html, start_pos) == marker_end_from(html, 0, 1)

last_item_end(html, start_pos) == marker_end_from(html, start_pos, 1)

\* end_pos of the i-th item (1-based) of the sorted list
end_pos_of(html, toc, sorted, i, start_pos) ==
    IF i < Len(sorted)
    THEN next_item_end(html, toc[sorted[i + 1]].anchor, start_pos)
    ELSE last_item_end(html, start_pos)

get_item_positions(html, toc) ==
    LET sorted == sorted_items(toc)
        found  == { i \in 1 .. Len(sorted) : start_pos_of(html, toc[sorted[i]].anchor) # -1 }
    IN  [ item \in { sorted[i] : i \in found } |->
            LET i == CHOOSE j \in found : sorted[j] = item
                start_pos == start_pos_of(html, toc[item].anchor)
            IN  << start_pos, end_pos_of(html, toc, sorted, i, start_pos) >> ]

(***************************************************************************)
(* ItemExtractor.extract_item                                              *)
(***************************************************************************)
\* soup.get_text(): the text outside markup of a slice
IsTextTok(tok) == tok \in {"txt", "SIG"}
get_text(item_html) == SelectSeq(item_html, IsTextTok)

extract_item(html, item_number, toc) ==
    IF item_number \notin DOMAIN toc
    THEN [tag |-> "error", error |-> "not found in TOC", item_number |-> item_number]
    ELSE LET pos == get_item_positions(html, toc)
         IN  IF item_number \notin DOMAIN pos
             THEN [tag |-> "error", error |-> "Could not locate", item_number |-> item_number]
             ELSE LET item_html == Slice(html, pos[item_number][1], pos[item_number][2])
                  IN  [tag |-> "item",
                       item_number  |-> item_number,
                       item_title   |-> toc[item_number].title,
                       html_content |-> item_html,
                       text_content |-> get_text(item_html)]

(***************************************************************************)
(* Boundary-resolver specification: any document and anchor mapping, then  *)
(* one call of get_item_positions or of extract_item.                      *)
(***************************************************************************)
IdleItems ==
    /\ item_numbers = <<>>
    /\ idx = 0
    /\ extracted_items = <<>>
    /\ filing_record = NoValue
    /\ saved_items = {}
    /\ saved_xtr = {}

IdleToc ==
    /\ doc_tables = <<>>
    /\ doc_blocks = <<>>
    /\ toc_result = NoValue

IdleOutline ==
    /\ section_divs = <<>>
    /\ loose_text = ""
    /\ elements = <<>>
    /\ elem_idx = 0
    /\ nodes = <<>>
    /\ heading_stack = <<>>
    /\ structure = <<>>

IdleFilter ==
    /\ filter_text = <<>>
    /\ filter_pages = <<>>
    /\ cleaned_pages = <<>>
    /\ filter_result = NoValue

IdleRow ==
    /\ toc_row = NoValue
    /\ row_entry = NoValue

IdleRun ==
    /\ num_tasks = 0
    /\ max_workers = 0
    /\ main_pc = "idle"
    /\ task_pc = <<>>
    /\ task_arg = <<>>
    /\ task_items = <<>>
    /\ session_filings = <<>>
    /\ csv_rows = <<>>
    /\ logger_lock = -1
    /\ lock = -1
    /\ report = NoValue

IdleCalls ==
    /\ item_returns = <<>>
    /\ log_warnings = <<>>

InitPos ==
    /\ IdleItems
    /\ IdleToc
    /\ IdleOutline
    /\ IdleFilter
    /\ IdleRow
    /\ IdleRun
    /\ IdleCalls
    /\ sorted_keys = NoValue
    /\ html_content \in Documents
    /\ toc_items \in TocMappings
    /\ positions = NoValue
    /\ item_result = NoValue
    /\ req_item = None
    /\ pc = "start"

GetItemPositions ==
    /\ pc = "start"
    /\ positions' = get_item_positions(html_content, toc_items)
    /\ pc' = "positioned"
    /\ UNCHANGED <<html_content, toc_items, item_result, req_item, itemVars, tocVars, outlineVars, filterVars, rowVars, runVars, callVars, sorted_keys>>

ExtractItem ==
    /\ pc = "start"
    /\ \E item \in ItemIds \cup {AbsentItem} :
         /\ req_item' = item
         /\ item_result' = extract_item(html_content, item, toc_items)
    /\ pc' = "extracted"
    /\ UNCHANGED <<html_content, toc_items, positions, itemVars, tocVars, outlineVars, filterVars, rowVars, runVars, callVars, sorted_keys>>

NextPos == GetItemPositions \/ ExtractItem

SpecPos == InitPos /\ [][NextPos]_vars

(***************************************************************************)
(* Properties of the boundary resolver and of extract_item.                *)
(***************************************************************************)
Range(f) == { f[x] : x \in DOMAIN f }
SortedToc == sorted_items(toc_items)
Positioned == pc = "positioned"
StartOf(item) == positions[item][1]
EndOf(item) == positions[item][2]

\* offsets at or after start where some end-of-filing marker pattern matches
MarkerOffsets(start) ==
    { p \in start .. (Len(html_content) - 1) :
        \E k \in 1 .. Len(end_marker_patterns) :
            marker_search(end_marker_patterns[k], Slice(html_content, p, p + 2)) = 0 }

\* the boundaries those matches give: the '<' before the match, else the match
MarkerEnds(start) == { tag_open_or(html_content, p) : p \in MarkerOffsets(start) }

\* the last item of the sorted order that received a range
HasLastResolvable == Positioned /\ DOMAIN positions # {}
LastResolvable ==
    SortedToc[Max({ i \in 1 .. Len(SortedToc) : SortedToc[i] \in DOMAIN positions })]
LastOfMapping == SortedToc[Len(SortedToc)]

\* C1 (as claimed): contiguity. For every pair of sections adjacent in sorted
\* order that both receive a range, the end offset of the earlier one equals
\* the start offset of the later one.
C1_Contiguity ==
    Positioned =>
        \A i \in 1 .. (Len(SortedToc) - 1) :
            (SortedToc[i] \in DOMAIN positions /\ SortedToc[i + 1] \in DOMAIN positions)
                => EndOf(SortedToc[i]) = StartOf(SortedToc[i + 1])

\* C2 (as claimed): every range has a non-negative start and an end strictly
\* greater than its start.
C2_NonEmptyRange ==
    Positioned =>
        \A item \in DOMAIN positions : StartOf(item) >= 0 /\ EndOf(item) > StartOf(item)

\* C3 (as claimed): round trip. The start of a range is the nearest '<' before
\* the first occurrence of the anchor attribute (when a '<' precedes it), and
\* locating the same anchor again inside html_content[start:end] gives offset 0.
C3_RoundTrip ==
    Positioned =>
        \A item \in DOMAIN positions :
            LET anchor == toc_items[item].anchor
                first  == anchor_search(anchor, html_content)
            IN  /\ rfind_lt(html_content, first) # -1
                      => StartOf(item) = rfind_lt(html_content, first)
                /\ start_pos_of(Slice(html_content, StartOf(item), EndOf(item)), anchor) = 0

\* C4 (as claimed): the end of the last resolvable section is the tag start of
\* an end-of-filing marker found after the section start, or the document
\* length when no such marker is found; never another position.
C4_LastEndAsClaimed ==
    HasLastResolvable =>
        LET s == StartOf(LastResolvable)
            e == EndOf(LastResolvable)
        IN  \/ e \in MarkerEnds(s)
            \/ (MarkerEnds(s) = {} /\ e = Len(html_content))

\* C4 (amended): the end of the last resolvable section is the tag start of an
\* end-of-filing marker matched at or after the section start, or the document
\* length.  It is the document length when no marker is found, and also
\* whenever the section is not the last entry of the sorted mapping: the
\* markers are searched for the last entry only.
C4_LastEnd ==
    HasLastResolvable =>
        LET s == StartOf(LastResolvable)
            e == EndOf(LastResolvable)
        IN  IF LastResolvable = LastOfMapping
            THEN \/ e \in MarkerEnds(s)
                 \/ (MarkerEnds(s) = {} /\ e = Len(html_content))
            ELSE e = Len(html_content)

\* C4 witness: the last entry of the mapping is resolvable and ends at the tag
\* start of a marker that lies strictly inside the document, after its start.
C4_Witness ==
    /\ HasLastResolvable
    /\ LastResolvable = LastOfMapping
    /\ Cardinality(DOMAIN positions) >= 2
    /\ EndOf(LastResolvable) \in MarkerEnds(StartOf(LastResolvable))
    /\ StartOf(LastResolvable) < EndOf(LastResolvable)
    /\ EndOf(LastResolvable) < Len(html_content)

\* C6: extract_item fails with "not in mapping" exactly when the identifier is
\* no key of the mapping, with "range unresolvable" exactly when it is a key
\* but has no anchor or its anchor attribute occurs nowhere in the document,
\* and otherwise returns a record of item_number, item_title, html_content
\* and text_content.
C6_ExtractItemOutcome ==
    pc = "extracted" =>
        IF req_item \notin DOMAIN toc_items
        THEN item_result.tag = "error" /\ item_result.error = "not found in TOC"
        ELSE IF \/ toc_items[req_item].anchor = None
                \/ AnchorTok(toc_items[req_item].anchor) \notin Range(html_content)
             THEN item_result.tag = "error" /\ item_result.error = "Could not locate"
             ELSE /\ item_result.tag = "item"
                  /\ DOMAIN item_result =
                        {"tag", "item_number", "item_title", "html_content", "text_content"}
                  /\ item_result.item_number = req_item
                  /\ item_result.item_title = toc_items[req_item].title

\* C6 witness: a key of the mapping whose anchor occurs nowhere in the document
\* was requested and the call failed with the range error, in a document where
\* another section is resolvable.
C6_Witness ==
    /\ pc = "extracted"
    /\ req_item \in DOMAIN toc_items
    /\ toc_items[req_item].anchor # None
    /\ item_result.tag = "error"
    /\ item_result.error = "Could not locate"
    /\ get_item_positions(html_content, toc_items) # <<>>

(***************************************************************************)
(* ItemExtractor.extract_items and the per-section loop of                 *)
(* ItemXtractor.process_filing / _extract_and_save_item.                   *)
(***************************************************************************)
ItemsTokens == {"lt", "id_a"}
ItemsDocuments == SeqsUpTo(ItemsTokens, MaxItemsDocLen)
Requests == SeqsUpTo(ItemIds \cup {AbsentItem}, MaxRequested)

\* d[k] = v of a Python dict
DictPut(d, k, v) == [x \in DOMAIN d \cup {k} |-> IF x = k THEN v ELSE d[x]]

\* the loop body without its try/except: the exception leaves the loop
extract_items_entry_no_catch(html, item_number, toc) ==
    LET r == extract_item(html, item_number, toc)
    IN  IF r.tag = "error" THEN [tag |-> "raise", error |-> r.error] ELSE r

\* body of the for loop of extract_items: the item data, or {'error': str(e)}
extract_items_entry(html, item_number, toc) ==
    LET r == extract_item(html, item_number, toc)
    IN  IF r.tag = "error" THEN [tag |-> "entry_error", error |-> r.error] ELSE r

\* the argument items=None of process_filing ("extract all")
ItemsNone == << <<"None">> >>

\* [item for item in items if item in toc_items]
RECURSIVE items_in_toc(_, _)
items_in_toc(items, toc) ==
    IF items = <<>> THEN <<>>
    ELSE IF Head(items) \in DOMAIN toc
         THEN <<Head(items)>> \o items_in_toc(Tail(items), toc)
         ELSE items_in_toc(Tail(items), toc)

\* process_filing: items_to_extract; list(toc_items.keys()) when items is None
items_to_extract(items, toc) ==
    IF items = ItemsNone THEN sorted_items(toc) ELSE items_in_toc(items, toc)

\* _extract_and_save_item whose outline step is not guarded by its own
\* try/except: a failure of it reaches the outer handler
extract_and_save_item_outline_fatal(html, item_number, toc, save_ok, xtr_ok) ==
    LET r == extract_item(html, item_number, toc)
    IN  IF r.tag = "error"
        THEN [success |-> FALSE, error |-> r.error, saved |-> FALSE, logged |-> FALSE,
              xtr_saved |-> FALSE, warning |-> FALSE]
        ELSE IF ~save_ok
        THEN [success |-> FALSE, error |-> "save failed", saved |-> FALSE, logged |-> FALSE,
              xtr_saved |-> FALSE, warning |-> FALSE]
        ELSE [success |-> xtr_ok, error |-> IF xtr_ok THEN None ELSE "structure failed",
              saved |-> TRUE, logged |-> TRUE, xtr_saved |-> xtr_ok, warning |-> FALSE]

\* _extract_and_save_item: what it returns (success, error) and what it does on
\* the way: saved (the item JSON is written), logged (the section is logged as
\* extracted), xtr_saved (the outline file is written), warning (the outline
\* step failed and a warning is logged).  save_ok / xtr_ok say whether
\* save_item_json and the outline step (extract_structure, save_json) succeed.
extract_and_save_item(html, item_number, toc, save_ok, xtr_ok) ==
    LET r == extract_item(html, item_number, toc)
    IN  IF r.tag = "error"
        THEN [success |-> FALSE, error |-> r.error, saved |-> FALSE, logged |-> FALSE,
              xtr_saved |-> FALSE, warning |-> FALSE]
        ELSE IF ~save_ok
        THEN [success |-> FALSE, error |-> "save failed", saved |-> FALSE, logged |-> FALSE,
              xtr_saved |-> FALSE, warning |-> FALSE]
        ELSE [success |-> TRUE, error |-> None, saved |-> TRUE, logged |-> TRUE,
              xtr_saved |-> xtr_ok, warning |-> ~xtr_ok]

\* ExtractionLogger.log_item_extraction
log_item_extraction(record, item_number, success, error) ==
    IF success
    THEN [record EXCEPT !.items_extracted = Append(@, item_number)]
    ELSE [record EXCEPT !.errors = Append(@, [item |-> item_number, error |-> error])]

\* the filing record when the section loop of process_filing starts
RecordAtLoopStart ==
    [downloaded |-> TRUE, skipped_download |-> FALSE, toc_found |-> TRUE,
     items_extracted |-> <<>>, errors |-> <<>>, status |-> "in_progress"]

InitItems ==
    /\ IdleToc
    /\ IdleOutline
    /\ IdleFilter
    /\ IdleRow
    /\ IdleRun
    /\ IdleCalls
    /\ sorted_keys = NoValue
    /\ html_content \in ItemsDocuments
    /\ toc_items \in TocMappings
    /\ positions = NoValue
    /\ item_result = NoValue
    /\ req_item = None
    /\ pc \in {"extract_items", "process_filing"}
    /\ item_numbers \in Requests \cup {ItemsNone}
    /\ pc = "extract_items" => item_numbers # ItemsNone
    /\ pc = "process_filing" => DOMAIN toc_items # {}
    /\ filing_record = IF pc = "process_filing" THEN RecordAtLoopStart ELSE NoValue
    /\ idx = 0
    /\ extracted_items = <<>>
    /\ saved_items = {}
    /\ saved_xtr = {}

\* one iteration of the loop of extract_items
ExtractItemsStep ==
    /\ pc = "extract_items"
    /\ idx < Len(item_numbers)
    /\ \E item_number \in {item_numbers[idx + 1]} :
       \E entry \in {extract_items_entry(html_content, item_number, toc_items)} :
           /\ pc' = IF entry.tag = "raise" THEN "aborted" ELSE pc
           /\ idx' = IF entry.tag = "raise" THEN idx ELSE idx + 1
           /\ extracted_items' = IF entry.tag = "raise" THEN extracted_items
                                 ELSE DictPut(extracted_items, item_number, entry)
    /\ UNCHANGED <<html_content, toc_items, positions, item_result, req_item,
                   item_numbers, filing_record, saved_items, saved_xtr, tocVars, outlineVars, filterVars, rowVars, runVars, callVars, sorted_keys>>

\* return extracted_items
ExtractItemsReturn ==
    /\ pc = "extract_items"
    /\ idx = Len(item_numbers)
    /\ pc' = "items_done"
    /\ UNCHANGED <<html_content, toc_items, positions, item_result, req_item, itemVars, tocVars, outlineVars, filterVars, rowVars, runVars, callVars, sorted_keys>>

\* one iteration of the section loop of process_filing: a whole call of
\* _extract_and_save_item.  save_ok / xtr_ok: whether save_item_json and the
\* outline step (extract_structure, save_json) succeed or raise.
ProcessFilingItem ==
    /\ pc = "process_filing"
    /\ idx < Len(items_to_extract(item_numbers, toc_items))
    /\ \E save_ok \in BOOLEAN, xtr_ok \in BOOLEAN :
         \E item_number \in {items_to_extract(item_numbers, toc_items)[idx + 1]} :
         \E out \in {extract_and_save_item(html_content, item_number, toc_items, save_ok, xtr_ok)} :
             /\ idx' = idx + 1
             /\ filing_record' =
                    IF out.logged /\ ~out.success
                    THEN log_item_extraction(log_item_extraction(filing_record, item_number, TRUE, None),
                                             item_number, FALSE, out.error)
                    ELSE log_item_extraction(filing_record, item_number, out.success, out.error)
             /\ saved_items' = IF out.saved THEN saved_items \cup {item_number} ELSE saved_items
             /\ saved_xtr' = IF out.xtr_saved THEN saved_xtr \cup {item_number} ELSE saved_xtr
             /\ item_returns' = Append(item_returns,
                                       [item |-> item_number, success |-> out.success,
                                        save_ok |-> save_ok, outline_ok |-> xtr_ok])
             /\ log_warnings' = IF out.warning THEN Append(log_warnings, item_number)
                                ELSE log_warnings
    /\ UNCHANGED <<html_content, toc_items, positions, item_result, req_item, pc,
                   item_numbers, extracted_items, tocVars, outlineVars, filterVars, rowVars, runVars, sorted_keys>>

\* log_filing_complete(filing_record); return True
ProcessFilingComplete ==
    /\ pc = "process_filing"
    /\ idx = Len(items_to_extract(item_numbers, toc_items))
    /\ filing_record' = [filing_record EXCEPT !.status = "completed"]
    /\ pc' = "filing_done"
    /\ UNCHANGED <<html_content, toc_items, positions, item_result, req_item,
                   item_numbers, idx, extracted_items, saved_items, saved_xtr, tocVars, outlineVars, filterVars, rowVars, runVars, callVars, sorted_keys>>

NextItems ==
    \/ ExtractItemsStep
    \/ ExtractItemsReturn
    \/ ProcessFilingItem
    \/ ProcessFilingComplete

SpecItems == InitItems /\ [][NextItems]_vars

\* whether extract_item can produce data for item: it is a key of the mapping,
\* has an anchor, and the anchor attribute occurs in the document
Extractable(item) ==
    /\ item \in DOMAIN toc_items
    /\ toc_items[item].anchor # None
    /\ AnchorTok(toc_items[item].anchor) \in Range(html_content)

ToExtract == items_to_extract(item_numbers, toc_items)

\* C7: a failing section never aborts its siblings.  extract_items never
\* leaves its loop early: after idx iterations exactly the first idx requested
\* sections have an entry, it returns only after the last one, and each entry
\* is that section's own data (if extractable) or its own error.  In
\* process_filing every section of items_to_extract is attempted and recorded
\* as extracted or as an error of its own before the filing completes.
C7_SiblingsNotAborted ==
    /\ pc # "aborted"
    /\ pc \in {"extract_items", "items_done"} =>
          /\ DOMAIN extracted_items = { item_numbers[k] : k \in 1 .. idx }
          /\ pc = "items_done" => idx = Len(item_numbers)
          /\ \A item \in DOMAIN extracted_items :
                IF Extractable(item)
                THEN extracted_items[item].tag = "item"
                     /\ extracted_items[item].item_number = item
                ELSE extracted_items[item].tag = "entry_error"
    /\ pc \in {"process_filing", "filing_done"} =>
          /\ pc = "filing_done" => idx = Len(ToExtract)
          /\ \A k \in 1 .. idx :
                \/ ToExtract[k] \in Range(filing_record.items_extracted)
                \/ \E e \in Range(filing_record.errors) : e.item = ToExtract[k]
          /\ Len(filing_record.items_extracted) + Len(filing_record.errors) = idx

\* C7 witness: extract_items returned after a request of two different sections
\* of which the first failed and the second, attempted after it, was extracted.
C7_Witness ==
    /\ pc = "items_done"
    /\ Len(item_numbers) = 2
    /\ item_numbers[1] # item_numbers[2]
    /\ extracted_items[item_numbers[1]].tag = "entry_error"
    /\ extracted_items[item_numbers[2]].tag = "item"

(***************************************************************************)
(* SECParser.parse_toc: _find_toc_table, _parse_toc_from_table,            *)
(* _find_toc_from_structure.                                               *)
(*                                                                         *)
(* A table is [phrase, rows]: phrase says that its text holds one of the   *)
(* indicator phrases ('table of contents', 'part i', ...); a row is        *)
(* [markers, frags, id]: the section markers ("Item 7A") of its text in    *)
(* order, the href of each of its links ("nofrag" when the href has no     *)
(* '#') and its id attribute.  A block element is [item, id, name, a_name, *)
(* a_id, prev_name, prev_dist]: the first marker of its text (NoItem when  *)
(* none), its own id/name, the name/id of its first <a>, and the name of   *)
(* the preceding <a name> with its distance in source lines.               *)
(***************************************************************************)
NoItem == <<>>
I1 == <<"1">>
I1A == <<"1", "A">>
I2 == <<"2">>

MinTocItems == 2
MaxItemsToFind == 20
HeadingsLimit == 200
MaxAnchorLineDistance == 10
MinItemsWithoutLinks == 3

RowPool ==
    { [markers |-> <<I1>>,      frags |-> <<"a">>,      id |-> None],
      [markers |-> <<I1A>>,     frags |-> <<>>,         id |-> "r"],
      [markers |-> <<I2, I1>>,  frags |-> <<"nofrag">>, id |-> None] }

Tables == { [phrase |-> ph, rows |-> rs] : ph \in BOOLEAN, rs \in SeqsUpTo(RowPool, MaxRows) }

\* zero, one or two tables: two are what the choice among candidates needs
TableSeqs == SeqsUpTo(Tables, 2)

BlockPool ==
    { [item |-> I1, id |-> "a", name |-> None, a_name |-> None, a_id |-> None,
       prev_name |-> None, prev_dist |-> 0],
      [item |-> I2, id |-> None, name |-> None, a_name |-> None, a_id |-> None,
       prev_name |-> "p", prev_dist |-> 12],
      [item |-> I2, id |-> None, name |-> None, a_name |-> "b", a_id |-> None,
       prev_name |-> None, prev_dist |-> 0],
      [item |-> NoItem, id |-> "x", name |-> None, a_name |-> None, a_id |-> None,
       prev_name |-> None, prev_dist |-> 0] }

BlockSeqs == SeqsUpTo(BlockPool, MaxBlocks)

RECURSIVE SumLen(_)
SumLen(rows) == IF rows = <<>> THEN 0 ELSE Len(Head(rows).markers) + SumLen(Tail(rows))

\* len(re.findall(r'item\s+\d+[a-z]?', table_text_lower))
item_count(table) == SumLen(table.rows)

\* any(indicator in table_text_lower for indicator in toc_indicators):
\* an indicator phrase, or a marker the list names ('item 1.', 'item 1 ', 'item 1a')
has_toc_indicator(table) ==
    \/ table.phrase
    \/ \E r \in 1 .. Len(table.rows) :
         \E m \in 1 .. Len(table.rows[r].markers) : table.rows[r].markers[m] \in {I1, I1A}

\* links = table.find_all('a')
has_links(table) == \E r \in 1 .. Len(table.rows) : table.rows[r].frags # <<>>

is_potential_toc(table) ==
    /\ has_toc_indicator(table) \/ item_count(table) >= 2
    /\ has_links(table) \/ item_count(table) >= MinItemsWithoutLinks

\* _find_toc_table: index of the candidate with the most markers, the first of
\* them in document order (the sort is stable); 0 when there is no candidate
find_toc_table(tables) ==
    LET cand == { i \in 1 .. Len(tables) : is_potential_toc(tables[i]) }
    IN  IF cand = {} THEN 0
        ELSE Min({ i \in cand : \A j \in cand : item_count(tables[j]) <= item_count(tables[i]) })

\* the anchor of a row: the fragment of its first link that has one, else its id
RECURSIVE first_fragment(_)
first_fragment(frags) ==
    IF frags = <<>> THEN None
    ELSE IF Head(frags) # "nofrag" THEN Head(frags) ELSE first_fragment(Tail(frags))

row_anchor(row) ==
    IF first_fragment(row.frags) # None THEN first_fragment(row.frags) ELSE row.id

\* _extract_item_number(row_text): the first marker, None (NoItem) without one
extract_item_number(markers) == IF markers = <<>> THEN NoItem ELSE Head(markers)

RECURSIVE parse_rows(_, _)
parse_rows(rows, toc) ==
    IF rows = <<>> THEN toc
    ELSE LET row == Head(rows)
             item_number == extract_item_number(row.markers)
         IN  IF item_number = NoItem THEN parse_rows(Tail(rows), toc)
             ELSE parse_rows(Tail(rows),
                             DictPut(toc, item_number, AnchorEntry(item_number, row_anchor(row))))

parse_toc_from_table(table) == parse_rows(table.rows, <<>>)

\* the anchor the structure scan resolves for a block element
block_anchor(b) ==
    IF b.id # None THEN b.id
    ELSE IF b.name # None THEN b.name
    ELSE IF b.a_name # None THEN b.a_name
    ELSE IF b.a_id # None THEN b.a_id
    ELSE IF b.prev_name # None /\ b.prev_dist < MaxAnchorLineDistance THEN b.prev_name
    ELSE None

RECURSIVE scan_blocks(_, _)
scan_blocks(blocks, toc) ==
    IF blocks = <<>> \/ Cardinality(DOMAIN toc) >= MaxItemsToFind THEN toc
    ELSE LET b == Head(blocks)
         IN  IF b.item # NoItem /\ (b.item \notin DOMAIN toc \/ toc[b.item].anchor = None)
             THEN scan_blocks(Tail(blocks), DictPut(toc, b.item, AnchorEntry(b.item, block_anchor(b))))
             ELSE scan_blocks(Tail(blocks), toc)

\* _find_toc_from_structure: the first HeadingsLimit block elements are scanned
find_toc_from_structure(blocks) ==
    scan_blocks(SubSeq(blocks, 1, IF Len(blocks) > HeadingsLimit THEN HeadingsLimit ELSE Len(blocks)),
                <<>>)

TocFound(items) == [tag |-> "toc", items |-> items]
TocNotFound == [tag |-> "not_found"]

\* the structure fallback of parse_toc
parse_toc_fallback(blocks) ==
    LET toc == find_toc_from_structure(blocks)
    IN  IF Cardinality(DOMAIN toc) >= MinTocItems THEN TocFound(toc) ELSE TocNotFound

\* a parse_toc that returns whatever a found table yields
parse_toc_trust_table(tables, blocks) ==
    LET t == find_toc_table(tables)
    IN  IF t # 0 /\ parse_toc_from_table(tables[t]) # <<>>
        THEN TocFound(parse_toc_from_table(tables[t]))
        ELSE parse_toc_fallback(blocks)

parse_toc(tables, blocks) ==
    LET t == find_toc_table(tables)
    IN  IF t # 0 /\ Cardinality(DOMAIN parse_toc_from_table(tables[t])) >= MinTocItems
        THEN TocFound(parse_toc_from_table(tables[t]))
        ELSE parse_toc_fallback(blocks)

IdlePos ==
    /\ html_content = <<>>
    /\ toc_items = <<>>
    /\ positions = NoValue
    /\ item_result = NoValue
    /\ req_item = None

InitToc ==
    /\ IdlePos
    /\ IdleItems
    /\ IdleOutline
    /\ IdleFilter
    /\ IdleRow
    /\ IdleRun
    /\ IdleCalls
    /\ sorted_keys = NoValue
    /\ doc_tables \in TableSeqs
    /\ doc_blocks \in BlockSeqs
    /\ toc_result = NoValue
    /\ pc = "parse_toc"

ParseToc ==
    /\ pc = "parse_toc"
    /\ toc_result' = parse_toc(doc_tables, doc_blocks)
    /\ pc' = "toc_done"
    /\ UNCHANGED <<html_content, toc_items, positions, item_result, req_item,
                   itemVars, doc_tables, doc_blocks, outlineVars, filterVars, rowVars, runVars, callVars, sorted_keys>>

\* process_filing after parse_toc: the mapping becomes toc_items of the
\* extraction, or the filing ends with "no table of contents"
UseToc ==
    /\ pc = "toc_done"
    /\ IF toc_result.tag = "toc"
       THEN toc_items' = toc_result.items /\ pc' = "toc_found"
       ELSE toc_items' = toc_items /\ pc' = "toc_missing"
    /\ UNCHANGED <<html_content, positions, item_result, req_item, itemVars, tocVars, outlineVars, filterVars, rowVars, runVars, callVars, sorted_keys>>

NextToc == ParseToc \/ UseToc

SpecToc == InitToc /\ [][NextToc]_vars

TableIndex == find_toc_table(doc_tables)
TableToc == IF TableIndex = 0 THEN <<>> ELSE parse_toc_from_table(doc_tables[TableIndex])
StructureToc == find_toc_from_structure(doc_blocks)

\* C5: parse_toc returns a mapping only if it has at least 2 entries.  A table
\* result with fewer than 2 sections is never returned: the structure scan is
\* used instead, and a scan result with fewer than 2 sections gives "not found".
C5_AtLeastTwoEntries ==
    pc = "toc_done" =>
        /\ toc_result.tag \in {"toc", "not_found"}
        /\ toc_result.tag = "toc" => Cardinality(DOMAIN toc_result.items) >= 2
        /\ Cardinality(DOMAIN TableToc) >= 2 => toc_result = TocFound(TableToc)
        /\ Cardinality(DOMAIN TableToc) < 2 =>
              IF Cardinality(DOMAIN StructureToc) >= 2
              THEN toc_result = TocFound(StructureToc)
              ELSE toc_result = TocNotFound

\* C5 witness: a table of contents table was found but gave one section only,
\* and the mapping returned is the two-section result of the structure scan.
C5_Witness ==
    /\ pc = "toc_done"
    /\ TableIndex # 0
    /\ Cardinality(DOMAIN TableToc) = 1
    /\ toc_result.tag = "toc"
    /\ toc_result.items = StructureToc
    /\ toc_result.items # TableToc

(***************************************************************************)
(* StructureExtractor: _collect_elements, _get_heading_info,               *)
(* _is_body_content, _is_page_marker, _build_hierarchy, extract_structure. *)
(*                                                                         *)
(* A div is [style, text, nest]: style is the style of its direct child    *)
(* span ("bold" font-weight:700, "italic" font-style:italic, "none"), text *)
(* the text of the div itself (one text atom, "" when it has none), nest 1 *)
(* when the div lies inside the nearest preceding div of nest 0.  A text   *)
(* is a sequence of atoms; the " " atom is the separator of a join.        *)
(***************************************************************************)
min_heading_length == 3
max_heading_length == 200
max_italic_heading_length == 100

NoHeading == <<>>
PageMarkerAtom == "PAGE_BREAK_MARKER"
\* a text made of artifact characters only (zero-width space): strip() keeps
\* it, _clean_text turns it into the empty text
ArtifactAtom == "ZWSP"

TextLen(atom) ==
    CASE atom = "" -> 0
      [] atom = "ab" -> 2
      [] atom = "Overview" -> 8
      [] atom = "Some text." -> 10
      [] atom = "More text." -> 10
      [] atom = "T150" -> 150
      [] atom = "T250" -> 250
      [] atom = PageMarkerAtom -> 17
      [] atom = ArtifactAtom -> 1
      [] OTHER -> 1

DivPool ==
    { [style |-> "bold",   text |-> "Overview",     nest |-> 0],
      [style |-> "italic", text |-> "Overview",     nest |-> 0],
      [style |-> "italic", text |-> "T150",         nest |-> 0],
      [style |-> "bold",   text |-> "T250",         nest |-> 0],
      [style |-> "bold",   text |-> "ab",           nest |-> 0],
      [style |-> "none",   text |-> "Some text.",   nest |-> 0],
      [style |-> "none",   text |-> PageMarkerAtom, nest |-> 0],
      [style |-> "none",   text |-> "",             nest |-> 0],
      [style |-> "none",   text |-> ArtifactAtom,   nest |-> 0],
      [style |-> "none",   text |-> "More text.",   nest |-> 1],
      [style |-> "bold",   text |-> "Overview",     nest |-> 1] }

Sections == SeqsUpTo(DivPool, MaxDivs)
LooseTexts == {"", "Some text.", ArtifactAtom}

\* elements handed to _build_hierarchy directly: headings of layers 1..3
\* (heading_style_levels) and body elements
HeadingElem(layer, text) ==
    [type |-> "heading", layer |-> layer, heading |-> text, content |-> <<>>, is_heading |-> TRUE]
BodyElem(text) ==
    [type |-> "body", layer |-> 0, heading |-> NoHeading, content |-> text, is_heading |-> FALSE]

ElementPool ==
    { HeadingElem(l, <<"Overview">>) : l \in {1, 2, 3} }
        \cup { BodyElem(<<"Some text.">>), BodyElem(<<"More text.">>) }

ElementSeqs == SeqsUpTo(ElementPool, MaxElems)

\* _clean_text: whitespace and artifact characters collapse, the rest stays
clean_text(atoms) == SelectSeq(atoms, LAMBDA a : a # "" /\ a # ArtifactAtom)

\* str.strip(): only whitespace is removed
strip(atoms) == SelectSeq(atoms, LAMBDA a : a # "")

\* texts of the divs nested in div i: the run of nest-1 divs that follows it
RECURSIVE nested_text(_, _)
nested_text(divs, j) ==
    IF j > Len(divs) \/ divs[j].nest = 0 THEN <<>>
    ELSE <<divs[j].text>> \o nested_text(divs, j + 1)

\* div.get_text(): the div's own text and the text of the divs inside it
div_text(divs, i) ==
    IF divs[i].nest = 1 THEN <<divs[i].text>>
    ELSE <<divs[i].text>> \o nested_text(divs, i + 1)

RECURSIVE text_length(_)
text_length(atoms) == IF atoms = <<>> THEN 0 ELSE TextLen(Head(atoms)) + text_length(Tail(atoms))

\* _is_page_marker
is_page_marker(atoms) == \E k \in 1 .. Len(atoms) : atoms[k] = PageMarkerAtom

\* _get_heading_info: the level of the heading, 0 when the div is no heading
heading_level(style, raw) ==
    LET text == clean_text(raw) IN
    IF /\ style = "bold"
       /\ text # <<>>
       /\ min_heading_length <= text_length(text)
       /\ text_length(text) <= max_heading_length
    THEN 1
    ELSE IF /\ style = "italic"
            /\ text # <<>>
            /\ min_heading_length <= text_length(text)
            /\ text_length(text) <= max_heading_length
            /\ text_length(text) <= max_italic_heading_length
         THEN 2
         ELSE 0

\* _is_body_content
is_body_content(style, raw) ==
    /\ heading_level(style, raw) = 0
    /\ strip(raw) # <<>>
    /\ ~is_page_marker(strip(raw))

\* _collect_elements: one element per div that is a heading or body content
RECURSIVE collect_from(_, _)
collect_from(divs, i) ==
    IF i > Len(divs) THEN <<>>
    ELSE LET raw == div_text(divs, i)
             text == clean_text(raw)
             level == heading_level(divs[i].style, raw)
         IN  IF level # 0 THEN <<HeadingElem(level, text)>> \o collect_from(divs, i + 1)
             ELSE IF is_body_content(divs[i].style, raw) /\ text # <<>> /\ ~is_page_marker(text)
                  THEN <<BodyElem(text)>> \o collect_from(divs, i + 1)
                  ELSE collect_from(divs, i + 1)

collect_elements(divs) == collect_from(divs, 1)

\* soup.get_text(): all text of the section in document order
RECURSIVE own_texts(_)
own_texts(divs) == IF divs = <<>> THEN <<>> ELSE <<Head(divs).text>> \o own_texts(Tail(divs))

section_text(divs, loose) == own_texts(divs) \o <<loose>>

\* heading_stack.pop() while the top has the same or a higher layer: bug variant
\* that pops strictly higher layers only
popped_stack_strict(stack, all_nodes, level) ==
    LET keep == { k \in 1 .. Len(stack) : \A j \in k .. Len(stack) : all_nodes[stack[j]].layer > level }
    IN  IF keep = {} THEN stack ELSE SubSeq(stack, 1, Min(keep) - 1)

\* while heading_stack and heading_stack[-1]['layer'] >= level: heading_stack.pop()
popped_stack(stack, all_nodes, level) ==
    LET keep == { k \in 1 .. Len(stack) : \A j \in k .. Len(stack) : all_nodes[stack[j]].layer >= level }
    IN  IF keep = {} THEN stack ELSE SubSeq(stack, 1, Min(keep) - 1)

\* body += content without the separating space
appended_body_no_space(body, content) == body \o content

\* heading_stack[-1]['body'] += ' ' + content, or = content when it is empty
appended_body(body, content) ==
    IF body # <<>> THEN body \o <<" ">> \o content ELSE content

\* heading_entry of a new heading
heading_entry(elem) ==
    [type |-> elem.type, layer |-> elem.layer, heading |-> elem.heading,
     body |-> <<>>, children |-> <<>>]

\* the fallback of extract_structure, applied even when a structure was found
simple_text_nodes_always(roots, text) ==
    IF text # <<>>
    THEN << [type |-> "simple_text", layer |-> 1, heading |-> NoHeading,
             body |-> text, children |-> <<>>] >>
    ELSE <<>>

\* the fallback of extract_structure: the nodes it appends to an empty structure
simple_text_nodes(roots, text) ==
    IF roots = <<>> /\ text # <<>>
    THEN << [type |-> "simple_text", layer |-> 1, heading |-> NoHeading,
             body |-> text, children |-> <<>>] >>
    ELSE <<>>

InitOutline ==
    /\ IdlePos
    /\ IdleItems
    /\ IdleToc
    /\ IdleFilter
    /\ IdleRow
    /\ IdleRun
    /\ IdleCalls
    /\ sorted_keys = NoValue
    /\ \/ /\ pc = "collect"
          /\ section_divs \in Sections
          /\ loose_text \in LooseTexts
          /\ elements = <<>>
       \/ /\ pc = "build_only"
          /\ section_divs = <<>>
          /\ loose_text = ""
          /\ elements \in ElementSeqs
    /\ elem_idx = 0
    /\ nodes = <<>>
    /\ heading_stack = <<>>
    /\ structure = <<>>

\* extract_structure up to the call of _build_hierarchy
CollectElements ==
    /\ pc = "collect"
    /\ elements' = collect_elements(section_divs)
    /\ pc' = "build"
    /\ UNCHANGED <<html_content, toc_items, positions, item_result, req_item, itemVars, tocVars,
                   section_divs, loose_text, elem_idx, nodes, heading_stack, structure, filterVars, rowVars, runVars, callVars, sorted_keys>>

Building == pc \in {"build", "build_only"}

\* one iteration of the loop of _build_hierarchy on a heading
BuildHeading ==
    /\ Building
    /\ elem_idx < Len(elements)
    /\ elements[elem_idx + 1].is_heading
    /\ \E stack \in {popped_stack(heading_stack, nodes, elements[elem_idx + 1].layer)} :
       \E id \in {Len(nodes) + 1} :
         /\ nodes' = IF stack # <<>>
                     THEN Append([nodes EXCEPT ![stack[Len(stack)]].children = Append(@, id)],
                                 heading_entry(elements[elem_idx + 1]))
                     ELSE Append(nodes, heading_entry(elements[elem_idx + 1]))
         /\ structure' = IF stack # <<>> THEN structure ELSE Append(structure, id)
         /\ heading_stack' = Append(stack, id)
    /\ elem_idx' = elem_idx + 1
    /\ UNCHANGED <<html_content, toc_items, positions, item_result, req_item, pc, itemVars, tocVars,
                   section_divs, loose_text, elements, filterVars, rowVars, runVars, callVars, sorted_keys>>

\* one iteration on body content while a heading is open
BuildBody ==
    /\ Building
    /\ elem_idx < Len(elements)
    /\ ~elements[elem_idx + 1].is_heading
    /\ heading_stack # <<>>
    /\ nodes' = [nodes EXCEPT ![heading_stack[Len(heading_stack)]].body =
                    appended_body(@, elements[elem_idx + 1].content)]
    /\ elem_idx' = elem_idx + 1
    /\ UNCHANGED <<html_content, toc_items, positions, item_result, req_item, pc, itemVars, tocVars,
                   section_divs, loose_text, elements, heading_stack, structure, filterVars, rowVars, runVars, callVars, sorted_keys>>

\* body content met with an empty stack is kept as a loose root
BuildSkipBody_loose_root ==
    /\ Building
    /\ elem_idx < Len(elements)
    /\ ~elements[elem_idx + 1].is_heading
    /\ heading_stack = <<>>
    /\ nodes' = Append(nodes, [type |-> "simple_text", layer |-> 1, heading |-> NoHeading,
                               body |-> elements[elem_idx + 1].content, children |-> <<>>])
    /\ structure' = Append(structure, Len(nodes) + 1)
    /\ elem_idx' = elem_idx + 1
    /\ UNCHANGED <<html_content, toc_items, positions, item_result, req_item, pc, itemVars, tocVars,
                   section_divs, loose_text, elements, heading_stack, filterVars, rowVars, runVars, callVars, sorted_keys>>

\* one iteration on body content while no heading is open: nothing is recorded
BuildSkipBody ==
    /\ Building
    /\ elem_idx < Len(elements)
    /\ ~elements[elem_idx + 1].is_heading
    /\ heading_stack = <<>>
    /\ elem_idx' = elem_idx + 1
    /\ UNCHANGED <<html_content, toc_items, positions, item_result, req_item, pc, itemVars, tocVars,
                   section_divs, loose_text, elements, nodes, heading_stack, structure, filterVars, rowVars, runVars, callVars, sorted_keys>>

\* _build_hierarchy returns to extract_structure, which appends the
\* simple_text node when the structure is empty and the section has text
FinishStructure ==
    /\ pc = "build"
    /\ elem_idx = Len(elements)
    /\ \E extra \in {simple_text_nodes(structure, clean_text(section_text(section_divs, loose_text)))} :
         /\ nodes' = nodes \o extra
         /\ structure' = IF extra = <<>> THEN structure ELSE Append(structure, Len(nodes) + 1)
    /\ pc' = "outline_done"
    /\ UNCHANGED <<html_content, toc_items, positions, item_result, req_item, itemVars, tocVars,
                   section_divs, loose_text, elements, elem_idx, heading_stack, filterVars, rowVars, runVars, callVars, sorted_keys>>

\* a direct call of _build_hierarchy returns its structure
ReturnHierarchy ==
    /\ pc = "build_only"
    /\ elem_idx = Len(elements)
    /\ pc' = "hierarchy_done"
    /\ UNCHANGED <<html_content, toc_items, positions, item_result, req_item, itemVars, tocVars,
                   outlineVars, filterVars, rowVars, runVars, callVars, sorted_keys>>

NextOutline ==
    \/ CollectElements
    \/ BuildHeading
    \/ BuildBody
    \/ BuildSkipBody
    \/ FinishStructure
    \/ ReturnHierarchy

SpecOutline == InitOutline /\ [][NextOutline]_vars

(***************************************************************************)
(* Properties of the outline                                               *)
(***************************************************************************)
NodeIds == 1 .. Len(nodes)

\* the number of times node c is owned by node p, and by the root list
TimesIn(list, c) == Cardinality({ k \in 1 .. Len(list) : list[k] = c })

Owners(c) == { p \in NodeIds : TimesIn(nodes[p].children, c) > 0 }

\* the nodes reachable from p through children lists, in at most n steps
RECURSIVE Descendants(_, _)
Descendants(p, n) ==
    IF n = 0 THEN {}
    ELSE LET direct == { nodes[p].children[k] : k \in 1 .. Len(nodes[p].children) }
         IN  direct \cup UNION { Descendants(c, n - 1) : c \in direct }

\* C8: at every step of _build_hierarchy every child's layer is strictly
\* greater than its parent's, every node is owned exactly once (by one
\* children list or by the root list), and no node is its own descendant.
C8_OutlineInvariant ==
    Building \/ pc \in {"hierarchy_done", "outline_done"} =>
        /\ \A p \in NodeIds : \A k \in 1 .. Len(nodes[p].children) :
              /\ nodes[p].children[k] \in NodeIds
              /\ nodes[nodes[p].children[k]].layer > nodes[p].layer
        /\ \A c \in NodeIds :
              LET owned == TimesIn(structure, c)
                            + Cardinality(Owners(c))
              IN  /\ owned = 1
                  /\ \A p \in Owners(c) : TimesIn(nodes[p].children, c) = 1
        /\ \A p \in NodeIds : p \notin Descendants(p, Len(nodes))

\* a finished hierarchy with a node nested two levels deep, a sibling that
\* closed a deeper heading, and a second root
C8_Witness ==
    /\ pc = "hierarchy_done"
    /\ Len(structure) = 2
    /\ \E p, c, g \in NodeIds :
          /\ TimesIn(nodes[p].children, c) = 1
          /\ TimesIn(nodes[c].children, g) = 1
          /\ nodes[g].layer = 3

\* the positions of the headings among the elements processed so far
HeadingPositions == { i \in 1 .. elem_idx : elements[i].is_heading }

\* the position of the heading that made node n
PositionOf(n) ==
    CHOOSE i \in HeadingPositions : Cardinality({ j \in HeadingPositions : j <= i }) = n

\* the last element processed so far that belongs to the heading at position i
LastOf(i) ==
    LET later == { j \in HeadingPositions : j > i }
    IN  IF later = {} THEN elem_idx ELSE Min(later) - 1

\* the contents of elements lo..hi, in order, joined by a single space
RECURSIVE SpaceJoined(_, _)
SpaceJoined(lo, hi) ==
    IF lo > hi THEN <<>>
    ELSE IF lo = hi THEN elements[lo].content
    ELSE elements[lo].content \o <<" ">> \o SpaceJoined(lo + 1, hi)

OverviewSection ==
    << [style |-> "bold", text |-> "Overview", nest |-> 0],
       [style |-> "none", text |-> "Some text.", nest |-> 0] >>

\* C9: the body of every heading node is the space-joined text, in document
\* order, of the body elements between its heading and the next heading;
\* a bold "Overview" followed by the block "Some text." gives one root node
\* of layer 1 with that heading, that body and no children.
C9_BodyAttachment ==
    /\ Building \/ pc \in {"hierarchy_done", "outline_done"} =>
          /\ Cardinality(HeadingPositions) = Cardinality({ n \in NodeIds : nodes[n].type = "heading" })
          /\ \A n \in NodeIds : nodes[n].type = "heading" =>
                /\ nodes[n].heading = elements[PositionOf(n)].heading
                /\ nodes[n].body = SpaceJoined(PositionOf(n) + 1, LastOf(PositionOf(n)))
    /\ pc = "outline_done" /\ section_divs = OverviewSection /\ loose_text = "" =>
          /\ structure = <<1>>
          /\ nodes = << [type |-> "heading", layer |-> 1, heading |-> <<"Overview">>,
                         body |-> <<"Some text.">>, children |-> <<>>] >>

\* a heading that received two body blocks after a deeper heading was opened
\* and closed by a sibling
C9_Witness ==
    /\ pc \in {"hierarchy_done", "outline_done"}
    /\ \E n \in NodeIds :
          /\ nodes[n].body = <<"Some text.", " ", "More text.">>
          /\ n > 1

\* the section of the example, finished
C9_ExampleWitness ==
    /\ pc = "outline_done"
    /\ section_divs = OverviewSection
    /\ loose_text = ""
    /\ Len(nodes) = 1

HasHeadingElement == \E i \in 1 .. Len(elements) : elements[i].is_heading

SectionCleanText == clean_text(section_text(section_divs, loose_text))

\* C10: extract_structure returns exactly one simple_text root (layer 1, no
\* heading, the cleaned full text as body, no children) when no element is a
\* heading and the cleaned text of the section is not empty, and no
\* simple_text node at all when some element is a heading.
C10_SimpleTextFallback ==
    pc = "outline_done" =>
        /\ ~HasHeadingElement /\ SectionCleanText # <<>> =>
              /\ structure = <<1>>
              /\ nodes = << [type |-> "simple_text", layer |-> 1, heading |-> NoHeading,
                             body |-> SectionCleanText, children |-> <<>>] >>
        /\ HasHeadingElement =>
              \A n \in NodeIds : nodes[n].type # "simple_text"

\* a section with body blocks and text outside any div but no heading
C10_Witness ==
    /\ pc = "outline_done"
    /\ ~HasHeadingElement
    /\ Len(elements) >= 1
    /\ loose_text = "Some text."
    /\ Len(nodes) = 1
    /\ nodes[1].type = "simple_text"

\* whether sub occurs in text as a run of consecutive atoms
Contains(text, sub) ==
    \E k \in 1 .. Len(text) - Len(sub) + 1 : SubSeq(text, k, k + Len(sub) - 1) = sub

\* the position of the first heading among all elements, Len(elements) + 1 if none
FirstHeading ==
    LET hs == { i \in 1 .. Len(elements) : elements[i].is_heading }
    IN  IF hs = {} THEN Len(elements) + 1 ELSE Min(hs)

\* the body elements already processed that stand before the first heading
PreHeadingBodies == { i \in 1 .. elem_idx : i < FirstHeading }

\* the text of element i is also the text, or part of the text, of an element
\* from the first heading on
RepeatedLater(i) ==
    \E j \in FirstHeading .. Len(elements) :
        \/ Contains(elements[j].content, elements[i].content)
        \/ elements[j].is_heading /\ Contains(elements[j].heading, elements[i].content)

OutlineRunning == Building \/ pc \in {"hierarchy_done", "outline_done"}

\* C11: body content met while the stack is empty is dropped.  It makes no
\* node (there are exactly as many heading nodes as headings processed, and
\* _build_hierarchy makes no other node), and when a heading follows, its text
\* occurs in no heading and no body of the outline.
C11_PreHeadingBodyDropped ==
    OutlineRunning =>
        /\ Cardinality({ n \in NodeIds : nodes[n].type = "heading" }) = Cardinality(HeadingPositions)
        /\ pc # "outline_done" => \A n \in NodeIds : nodes[n].type = "heading"
        /\ HasHeadingElement =>
              /\ \A n \in NodeIds : nodes[n].type = "heading"
              /\ \A i \in PreHeadingBodies : ~RepeatedLater(i) =>
                    \A n \in NodeIds :
                        /\ ~Contains(nodes[n].body, elements[i].content)
                        /\ ~Contains(nodes[n].heading, elements[i].content)

\* a finished section whose first div is body text that occurs nowhere else,
\* followed by a heading and another body block
C11_Witness ==
    /\ pc = "outline_done"
    /\ Len(elements) >= 3
    /\ ~elements[1].is_heading
    /\ elements[2].is_heading
    /\ ~elements[3].is_heading
    /\ ~RepeatedLater(1)
    /\ Len(nodes) >= 1

\* C12 as stated: text met before any heading becomes a single simple_text
\* root without children, also when headings follow in the same section.
C12_PreHeadingTextAsClaimed ==
    pc = "outline_done" /\ PreHeadingBodies # {} =>
        /\ Cardinality({ n \in NodeIds : nodes[n].type = "simple_text" }) = 1
        /\ \A n \in NodeIds : nodes[n].type = "simple_text" =>
              /\ nodes[n].children = <<>>
              /\ TimesIn(structure, n) = 1

\* C12, amended: a simple_text node is made only when no heading is found in
\* the whole section; it is then the only node, a root without children.
\* Text met before a heading that follows makes no simple_text node.
C12_PreHeadingText ==
    pc = "outline_done" =>
        /\ \A n \in NodeIds : nodes[n].type = "simple_text" =>
              /\ ~HasHeadingElement
              /\ Len(nodes) = 1
              /\ structure = <<n>>
              /\ nodes[n].children = <<>>
        /\ PreHeadingBodies # {} /\ HasHeadingElement =>
              \A n \in NodeIds : nodes[n].type # "simple_text"
        /\ PreHeadingBodies # {} /\ ~HasHeadingElement =>
              Cardinality({ n \in NodeIds : nodes[n].type = "simple_text" }) = 1

\* a finished section with body text before its first heading
C12_Witness ==
    /\ pc = "outline_done"
    /\ PreHeadingBodies # {}
    /\ HasHeadingElement
    /\ Len(nodes) >= 1

(***************************************************************************)
(* ItemExtractor._strip_headers_footers.                                   *)
(*                                                                         *)
(* A text is a sequence of words; the page break marker is a word of its   *)
(* own.  "w" is an ordinary word, "7" a number, "Page" a word whose lower  *)
(* case is an artifact phrase, "not" "applicable" the two-word artifact    *)
(* phrase, "acmeinc" a word matched by the second artifact pattern.        *)
(***************************************************************************)
MinWordsPerPage == 10

page_break_marker == "PAGE_BREAK_MARKER"

artifact_phrases ==
    { <<"table", "of", "contents">>, <<"page">>, <<"form">>, <<"10-k">>, <<"10-q">>,
      <<"10-a">>, <<"form", "10-k", "summary">>, <<"not", "applicable">> }

EdgeWords == {"w", "7", "Page", "not", "applicable", "acmeinc"}
Edges == SeqsUpTo(EdgeWords, MaxEdge)
CoreCounts == {0} \cup ((MaxCore - 2) .. MaxCore)
OrdinaryWords(n) == [k \in 1 .. n |-> "w"]
FirstPages == { lead \o OrdinaryWords(n) \o trail : lead \in Edges, trail \in Edges, n \in CoreCounts }
\* what follows the first page: nothing, a marker, or a marker and a second page
Continuations ==
    { <<>>, <<page_break_marker>>,
      <<page_break_marker>> \o OrdinaryWords(MaxCore) \o <<"not", "applicable">> }
FilterTexts == { p \o c : p \in FirstPages, c \in Continuations }

\* str.lower()
lower(word) == IF word = "Page" THEN "page" ELSE word

\* str.isdigit()
isdigit(word) == word \in {"7", "2022"}

\* any(pattern.match(word) for pattern in self.artifact_patterns)
matches_artifact_pattern(word) == word \in {"7", "acmeinc"}

\* the first test of both loops: the word alone is an artifact
is_artifact_word(word) ==
    \/ isdigit(word)
    \/ <<word>> \in artifact_phrases
    \/ word = "|"

\* the trailing loop without its floor of 10 words
strip_trailing_no_floor(words) ==
    LET n == Len(words)
    IN  IF n > 0 /\ is_artifact_word(lower(words[n])) THEN SubSeq(words, 1, n - 1) ELSE words

\* while len(words) > 10: remove trailing artifacts
RECURSIVE strip_trailing(_)
strip_trailing(words) ==
    LET n == Len(words)
    IN  IF n <= MinWordsPerPage THEN words
        ELSE IF is_artifact_word(lower(words[n])) THEN strip_trailing(SubSeq(words, 1, n - 1))
        ELSE IF n >= 2 /\ <<lower(words[n - 1]), lower(words[n])>> \in artifact_phrases
             THEN strip_trailing(SubSeq(words, 1, n - 2))
        ELSE IF matches_artifact_pattern(lower(words[n])) THEN strip_trailing(SubSeq(words, 1, n - 1))
        ELSE words

\* while len(words) > 10: remove leading artifacts
RECURSIVE strip_leading(_)
strip_leading(words) ==
    LET n == Len(words)
    IN  IF n <= MinWordsPerPage THEN words
        ELSE IF is_artifact_word(lower(words[1])) THEN strip_leading(SubSeq(words, 2, n))
        ELSE IF n >= 2 /\ <<lower(words[1]), lower(words[2])>> \in artifact_phrases
             THEN strip_leading(SubSeq(words, 3, n))
        ELSE IF matches_artifact_pattern(lower(words[1])) THEN strip_leading(SubSeq(words, 2, n))
        ELSE words

\* body of the loop over the pages
clean_page(words) == strip_leading(strip_trailing(words))

\* text.split(marker), keeping the pages that are not empty
RECURSIVE split_pages(_, _)
split_pages(text, page) ==
    IF text = <<>> THEN (IF page = <<>> THEN <<>> ELSE <<page>>)
    ELSE IF Head(text) = page_break_marker
         THEN (IF page = <<>> THEN <<>> ELSE <<page>>) \o split_pages(Tail(text), <<>>)
         ELSE split_pages(Tail(text), Append(page, Head(text)))

\* ' '.join(p for p in cleaned_pages if p.strip())
RECURSIVE join_pages(_)
join_pages(pages) == IF pages = <<>> THEN <<>> ELSE Head(pages) \o join_pages(Tail(pages))

InitFilter ==
    /\ IdlePos
    /\ IdleItems
    /\ IdleToc
    /\ IdleOutline
    /\ IdleRow
    /\ IdleRun
    /\ IdleCalls
    /\ sorted_keys = NoValue
    /\ pc = "split"
    /\ filter_text \in FilterTexts
    /\ filter_pages = <<>>
    /\ cleaned_pages = <<>>
    /\ filter_result = NoValue

\* pages = text.split(marker), stripped and filtered; return text if there is none
SplitPages ==
    /\ pc = "split"
    /\ filter_pages' = split_pages(filter_text, <<>>)
    /\ IF filter_pages' = <<>>
       THEN filter_result' = filter_text /\ pc' = "filter_done"
       ELSE filter_result' = filter_result /\ pc' = "strip"
    /\ UNCHANGED <<html_content, toc_items, positions, item_result, req_item, itemVars, tocVars,
                   outlineVars, filter_text, cleaned_pages, rowVars, runVars, callVars, sorted_keys>>

\* one iteration of the loop over the pages
StripPage ==
    /\ pc = "strip"
    /\ Len(cleaned_pages) < Len(filter_pages)
    /\ cleaned_pages' = Append(cleaned_pages, clean_page(filter_pages[Len(cleaned_pages) + 1]))
    /\ UNCHANGED <<html_content, toc_items, positions, item_result, req_item, pc, itemVars, tocVars,
                   outlineVars, filter_text, filter_pages, filter_result, rowVars, runVars, callVars, sorted_keys>>

\* result = ' '.join(...); return result.strip()
JoinPages ==
    /\ pc = "strip"
    /\ Len(cleaned_pages) = Len(filter_pages)
    /\ filter_result' = join_pages(cleaned_pages)
    /\ pc' = "filter_done"
    /\ UNCHANGED <<html_content, toc_items, positions, item_result, req_item, itemVars, tocVars,
                   outlineVars, filter_text, filter_pages, cleaned_pages, rowVars, runVars, callVars, sorted_keys>>

NextFilter == SplitPages \/ StripPage \/ JoinPages

SpecFilter == InitFilter /\ [][NextFilter]_vars

\* C13: every page of more than 10 words keeps at least 10 words.
C13_FloorOfTenWords ==
    \A k \in 1 .. Len(cleaned_pages) :
        Len(filter_pages[k]) > 10 => Len(cleaned_pages[k]) >= 10

\* C14: a page of at most 10 words comes out as it went in, and the returned
\* text holds its words unchanged.
C14_IdentityBelowFloor ==
    /\ \A k \in 1 .. Len(cleaned_pages) :
          Len(filter_pages[k]) <= 10 => cleaned_pages[k] = filter_pages[k]
    /\ pc = "filter_done" /\ Len(filter_pages) = 1 /\ Len(filter_pages[1]) <= 10 =>
          filter_result = filter_pages[1]

\* a returned page of at most 10 words, all of them artifacts at both ends
C14_Witness ==
    /\ pc = "filter_done"
    /\ Len(filter_pages) = 1
    /\ Len(filter_pages[1]) \in 1 .. 10
    /\ \A k \in 1 .. Len(filter_pages[1]) : filter_pages[1][k] \in {"7", "Page"}
    /\ filter_result = filter_pages[1]

(***************************************************************************)
(* One row of SECParser._parse_toc_from_table, on the characters of the    *)
(* row: _clean_text, _extract_item_number, the anchor of the links and     *)
(* _clean_item_title.                                                      *)
(*                                                                         *)
(* A text is a sequence of characters: " " is white space, "." a period,   *)
(* digits and the letters "A" "a" stand for themselves, and "Item",        *)
(* "Business", "Risk", "Factors" are runs of letters taken as one piece.   *)
(* An href is a sequence of pieces, "#" one of them.                       *)
(***************************************************************************)
Letters == {"A", "a"}
WordPieces == {"Item", "Business", "Risk", "Factors"}

IsWordChar(c) == c \in Digits \cup Letters \cup WordPieces

\* str.rstrip() and str.lstrip() of white space
RECURSIVE rstrip_space(_)
rstrip_space(text) ==
    IF text # <<>> /\ text[Len(text)] = " " THEN rstrip_space(SubSeq(text, 1, Len(text) - 1))
    ELSE text

RECURSIVE lstrip_space(_)
lstrip_space(text) ==
    IF text # <<>> /\ Head(text) = " " THEN lstrip_space(Tail(text)) ELSE text

\* the text without its trailing digits
RECURSIVE rstrip_digits(_)
rstrip_digits(text) ==
    IF text # <<>> /\ text[Len(text)] \in Digits THEN rstrip_digits(SubSeq(text, 1, Len(text) - 1))
    ELSE text

\* re.sub(r'\s+', ' ', text)
RECURSIVE collapse_space(_)
collapse_space(text) ==
    IF text = <<>> THEN <<>>
    ELSE IF Head(text) = " " THEN <<" ">> \o collapse_space(lstrip_space(text))
    ELSE <<Head(text)>> \o collapse_space(Tail(text))

\* SECParser._clean_text
parser_clean_text(text) == lstrip_space(rstrip_space(collapse_space(text)))

\* re.sub(r'\s+\d+\s*$', '', text)
sub_space_digits(text) ==
    LET t == rstrip_space(text)
        d == rstrip_digits(t)
    IN  IF d # t /\ d # <<>> /\ d[Len(d)] = " " THEN rstrip_space(d) ELSE text

\* re.sub(r'\.\s*\d+\s*$', '.', text)
sub_period_digits(text) ==
    LET t == rstrip_space(text)
        d == rstrip_digits(t)
        e == rstrip_space(d)
    IN  IF d # t /\ e # <<>> /\ e[Len(e)] = "." THEN e ELSE text

\* re.sub(r'\d+\s*$', '', text)
sub_digits(text) ==
    LET t == rstrip_space(text)
        d == rstrip_digits(t)
    IN  IF d # t THEN d ELSE text

\* SECParser._clean_item_title
clean_item_title(text) ==
    lstrip_space(rstrip_space(sub_digits(sub_period_digits(sub_space_digits(text)))))

\* the number matched by r'item\s+(\d+[A-Za-z]?)\b' at position i, upper-cased;
\* NoItem when the pattern does not match there
item_number_at(text, i) ==
    LET rest1 == SubSeq(text, i + 1, Len(text))
        rest2 == lstrip_space(rest1)
        nd == DigitPrefixLen(rest2)
        after == SubSeq(rest2, nd + 1, Len(rest2))
    IN  IF text[i] \notin {"Item"} \/ rest2 = rest1 \/ nd = 0 THEN NoItem
        ELSE IF after # <<>> /\ Head(after) \in Letters
                /\ (Len(after) = 1 \/ ~IsWordChar(after[2]))
             THEN SubSeq(rest2, 1, nd) \o <<"A">>
        ELSE IF after = <<>> \/ ~IsWordChar(Head(after)) THEN SubSeq(rest2, 1, nd)
        ELSE NoItem

\* SECParser._extract_item_number on a text: the leftmost match
number_in_text(text) ==
    LET hits == { i \in 1 .. Len(text) : item_number_at(text, i) # NoItem }
    IN  IF hits = {} THEN NoItem ELSE item_number_at(text, Min(hits))

\* href.split('#')[1] when '#' is in href, else None
href_fragment(href) ==
    LET marks == { i \in 1 .. Len(href) : href[i] = "#" }
    IN  IF marks = {} THEN <<>>
        ELSE LET first == Min(marks)
                 later == { i \in marks : i > first }
             IN  SubSeq(href, first + 1, IF later = {} THEN Len(href) ELSE Min(later) - 1)

\* the loop over the links of the row: the first fragment that is not empty
RECURSIVE link_anchor(_)
link_anchor(hrefs) ==
    IF hrefs = <<>> THEN <<>>
    ELSE IF href_fragment(Head(hrefs)) # <<>> THEN href_fragment(Head(hrefs))
    ELSE link_anchor(Tail(hrefs))

\* the entry a row adds to toc_items, or "skipped" for a row without a marker
parse_row(row) ==
    LET row_text == parser_clean_text(row.text)
        item_number == number_in_text(row_text)
        anchor == IF link_anchor(row.hrefs) # <<>> THEN link_anchor(row.hrefs) ELSE row.id
    IN  IF item_number = NoItem THEN [tag |-> "skipped"]
        ELSE [tag |-> "entry", item_number |-> item_number, anchor |-> anchor,
              title |-> clean_item_title(row_text)]

\* the rows: a section marker, a title, dot leaders and a page number
MarkerTexts == { <<"Item", " ", "1", ".">>, <<"Item", " ", "1", "A", ".">>, <<"Item", " ", "1", "a">>,
                 <<"Item", "1", ".">> }
TitleTexts == { <<" ", "Business">>, <<" ", "Risk", " ", "Factors">> }
LeaderTexts == { <<>>, <<" ", ".", ".", ".", ".">>, <<".">>, <<" ", " ">> }
PageTexts == { <<>>, <<" ", "3">>, <<"3">>, <<" ", "1", "0", " ">> }
RowTexts == { m \o t \o l \o g : m \in MarkerTexts, t \in TitleTexts, l \in LeaderTexts, g \in PageTexts }
Hrefs == { <<"#", "item1">>, <<"#", "item1a">>, <<"doc", "#", "item1">>, <<"doc">>, <<"#">> }
RowLinks == SeqsUpTo(Hrefs, MaxLinks)
TocRows == { [text |-> x, hrefs |-> h, id |-> i] : x \in RowTexts, h \in RowLinks, i \in {<<>>, <<"row1">>} }

InitRow ==
    /\ IdlePos
    /\ IdleItems
    /\ IdleToc
    /\ IdleOutline
    /\ IdleFilter
    /\ IdleRun
    /\ IdleCalls
    /\ sorted_keys = NoValue
    /\ pc = "row"
    /\ toc_row \in TocRows
    /\ row_entry = NoValue

\* one iteration of the loop over the rows of the table
ParseRow ==
    /\ pc = "row"
    /\ row_entry' = parse_row(toc_row)
    /\ pc' = "row_done"
    /\ UNCHANGED <<html_content, toc_items, positions, item_result, req_item, itemVars, tocVars,
                   outlineVars, filterVars, toc_row, runVars, callVars, sorted_keys>>

NextRow == ParseRow

SpecRow == InitRow /\ [][NextRow]_vars

\* the rows of the scenario: marker, title, " ....", " " and the page number,
\* with one link whose href is '#' and a fragment
ScenarioRow ==
    /\ \E m \in {<<"Item", " ", "1", ".">>, <<"Item", " ", "1", "A", ".">>} :
       \E t \in TitleTexts :
       \E g \in {<<" ", "3">>, <<" ", "1", "0", " ">>} :
          toc_row.text = m \o t \o <<" ", ".", ".", ".", ".">> \o g
    /\ Len(toc_row.hrefs) = 1
    /\ Head(toc_row.hrefs[1]) = "#"
    /\ Len(toc_row.hrefs[1]) = 2

\* the text of the row up to the end of its title
MarkerAndTitle ==
    CHOOSE x \in { m \o t : m \in MarkerTexts, t \in TitleTexts } :
        x = SubSeq(toc_row.text, 1, Len(x))

\* C15: for a row "marker title .... page" with link '#fragment' the entry has
\* the fragment as anchor and the marker and title, without dot leaders and
\* page number, as title.
C15_ScenarioTitle ==
    pc = "row_done" /\ ScenarioRow =>
        /\ row_entry.tag = "entry"
        /\ row_entry.anchor = <<toc_row.hrefs[1][2]>>
        /\ row_entry.title = MarkerAndTitle

(***************************************************************************)
(* ItemXtractor.extract: the tasks of a run, process_filing of each task,  *)
(* and the calls of ExtractionLogger that update the session log.           *)
(*                                                                         *)
(* A thread is named by its task; Free says that a lock is not held.  The  *)
(* outcome of each step that can fail (get_cik, the file look-up and       *)
(* download, parse_toc, _extract_and_save_item) is chosen freely.  Of the  *)
(* calls of the logger that only write a log line (info, warning, error),  *)
(* which take the lock of the logger and change nothing else, the one      *)
(* after the outline step, made inside "with self.logger_lock:", is kept.  *)
(* The CSV log is kept as the bag of the calls of _write_csv_log_entry.    *)
(***************************************************************************)
Free == -1
MainThread == 0

TaskIds == 1 .. num_tasks
Returned == {"returned_true", "returned_false"}
Final == Returned \cup {"raised"}
LoggerCalls == {"log_filing_start", "log_download", "log_toc_detection",
                "log_item_extraction", "log_filing_complete", "log_line"}

\* filing_record of log_filing_start
new_filing_record(t) ==
    [task |-> t, downloaded |-> FALSE, skipped_download |-> FALSE, toc_found |-> FALSE,
     items_extracted |-> <<>>, errors |-> <<>>, status |-> "in_progress"]

\* self.session_data['filings'].append(filing_record).  The list is kept in
\* the order of the tasks, not of the calls: every later call reaches the
\* record through the reference its task holds (RecordOf), and the position
\* of a record in the list is read nowhere.
log_filing_start(filings, t) ==
    LET n == Cardinality({ i \in 1 .. Len(filings) : filings[i].task < t })
    IN  SubSeq(filings, 1, n) \o <<new_filing_record(t)>> \o SubSeq(filings, n + 1, Len(filings))

log_download(record, downloaded, skipped, error) ==
    [record EXCEPT !.downloaded = downloaded, !.skipped_download = skipped,
                   !.errors = IF error # None THEN Append(@, [item |-> <<>>, error |-> error]) ELSE @]

log_toc_detection(record, found, error) ==
    [record EXCEPT !.toc_found = found,
                   !.errors = IF error # None THEN Append(@, [item |-> <<>>, error |-> error]) ELSE @]

log_filing_complete(record) == [record EXCEPT !.status = "completed"]

\* the index of the filing record of task t, 0 when it has none
RecordOf(filings, t) ==
    LET own == { i \in 1 .. Len(filings) : filings[i].task = t }
    IN  IF own = {} THEN 0 ELSE Min(own)

\* items_to_extract of every task
TaskSections == << <<"2">> >>

\* the values of max_workers: one thread, or a pool
WorkerCounts == {1, 2}

\* the session log after the logger call of task t
logger_update(filings, t, call, arg) ==
    LET i == RecordOf(filings, t)
    IN  CASE call = "log_filing_start" -> log_filing_start(filings, t)
          [] call = "log_download" ->
                [filings EXCEPT ![i] =
                    IF arg = "exists" THEN log_download(@, TRUE, TRUE, None)
                    ELSE IF arg = "downloaded" THEN log_download(@, TRUE, FALSE, None)
                    ELSE log_download(@, FALSE, FALSE, "Download error")]
          [] call = "log_toc_detection" ->
                [filings EXCEPT ![i] =
                    IF arg = "found" THEN log_toc_detection(@, TRUE, None)
                    ELSE IF arg = "none" THEN log_toc_detection(@, FALSE, None)
                    ELSE log_toc_detection(@, FALSE, "TOC detection error")]
          [] call = "log_item_extraction" ->
                [filings EXCEPT ![i] =
                    LET item_number == TaskSections[Len(@.items_extracted) + Len(@.errors) + 1]
                    IN  IF arg = "item_ok" THEN log_item_extraction(@, item_number, TRUE, None)
                        ELSE log_item_extraction(@, item_number, FALSE, "extraction error")]
          [] call = "log_filing_complete" ->
                [filings EXCEPT ![i] = log_filing_complete(@)]
          [] call = "log_line" -> filings

\* process_filing without its early returns: it goes on to the next stage
\* after a failed download and after a table of contents that was not found
after_logger_call_no_return(call, arg) ==
    CASE call = "log_filing_start" -> [pc |-> "fetch", arg |-> None]
      [] call = "log_line" -> [pc |-> "release_outer", arg |-> None]
      [] call = "log_download" -> [pc |-> "parse_toc", arg |-> None]
      [] call = "log_toc_detection" -> [pc |-> "items", arg |-> None]
      [] call = "log_item_extraction" -> [pc |-> "release_outer", arg |-> arg]
      [] call = "log_filing_complete" ->
            IF arg = "success" THEN [pc |-> "returned_true", arg |-> None]
            ELSE [pc |-> "returned_false", arg |-> None]

\* where process_filing goes on after the logger call
after_logger_call(call, arg) ==
    CASE call = "log_filing_start" -> [pc |-> "fetch", arg |-> None]
      [] call = "log_line" -> [pc |-> "release_outer", arg |-> None]
      [] call = "log_download" ->
            IF arg = "download_failed" THEN [pc |-> "log_filing_complete", arg |-> "failure"]
            ELSE [pc |-> "parse_toc", arg |-> None]
      [] call = "log_toc_detection" ->
            IF arg = "found" THEN [pc |-> "items", arg |-> None]
            ELSE [pc |-> "log_filing_complete", arg |-> "failure"]
      [] call = "log_item_extraction" -> [pc |-> "release_outer", arg |-> arg]
      [] call = "log_filing_complete" ->
            IF arg = "success" THEN [pc |-> "returned_true", arg |-> None]
            ELSE [pc |-> "returned_false", arg |-> None]

\* process_filing without its exception handlers: the exception leaves it
after_exception_uncaught(stage) == [pc |-> "raised", arg |-> "failure"]

\* the handler an exception of each stage of process_filing ends in
after_exception(stage) ==
    CASE stage = "resolve" -> [pc |-> "returned_false", arg |-> None]
      [] stage = "download" -> [pc |-> "log_download", arg |-> "download_failed"]
      [] stage = "parse_toc" -> [pc |-> "log_toc_detection", arg |-> "raised"]
      [] stage = "item" -> [pc |-> "log_item_extraction", arg |-> "item_failed"]
      [] OTHER -> [pc |-> "unexpected", arg |-> "failure"]

Running == { t \in TaskIds : task_pc[t] \notin Final \cup {"queued"} }

InitRun ==
    /\ IdlePos
    /\ IdleItems
    /\ IdleToc
    /\ IdleOutline
    /\ IdleFilter
    /\ IdleRow
    /\ IdleCalls
    /\ sorted_keys = NoValue
    /\ pc = "run"
    /\ num_tasks \in 1 .. MaxTasks
    /\ max_workers \in WorkerCounts
    /\ main_pc = "start"
    /\ task_pc = <<>>
    /\ task_arg = <<>>
    /\ task_items = <<>>
    /\ session_filings = <<>>
    /\ csv_rows = <<>>
    /\ logger_lock = Free
    /\ lock = Free
    /\ report = NoValue

OtherUnchanged ==
    UNCHANGED <<posVars, itemVars, tocVars, outlineVars, filterVars, rowVars, num_tasks, max_workers, callVars, sorted_keys>>

\* a step of task t that moves it to position to with pending outcome arg
Goto(t, to) ==
    /\ task_pc' = [task_pc EXCEPT ![t] = to.pc]
    /\ task_arg' = [task_arg EXCEPT ![t] = to.arg]

\* extract: the tasks are built and handed to the pool or run one by one
StartRun ==
    /\ main_pc = "start"
    /\ main_pc' = IF num_tasks > 1 /\ max_workers > 1 THEN "pool" ELSE "sequential"
    /\ task_pc' = [t \in TaskIds |-> "queued"]
    /\ task_arg' = [t \in TaskIds |-> None]
    /\ task_items' = [t \in TaskIds |-> 0]
    /\ UNCHANGED <<session_filings, csv_rows, logger_lock, lock, report, callVars, sorted_keys>>
    /\ OtherUnchanged

\* a worker of the pool takes the next task; the sequential loop calls
\* process_filing for the next task after the one before has returned
StartTask(t) ==
    /\ task_pc[t] = "queued"
    /\ \/ /\ main_pc = "pool"
          /\ Cardinality(Running) < max_workers
          /\ \A u \in TaskIds : u < t => task_pc[u] # "queued"
       \/ /\ main_pc = "sequential"
          /\ \A u \in TaskIds : u < t => task_pc[u] \in Returned
    /\ Goto(t, [pc |-> "resolve", arg |-> None])
    /\ UNCHANGED <<main_pc, task_items, session_filings, csv_rows, logger_lock, lock, report, callVars, sorted_keys>>
    /\ OtherUnchanged

\* cik = self.downloader.get_cik(cik_ticker)
Resolve(t) ==
    /\ task_pc[t] = "resolve"
    /\ \E ok \in BOOLEAN :
         Goto(t, IF ok THEN [pc |-> "log_filing_start", arg |-> None] ELSE after_exception("resolve"))
    /\ UNCHANGED <<main_pc, task_items, session_filings, csv_rows, logger_lock, lock, report, callVars, sorted_keys>>
    /\ OtherUnchanged

\* the directory, the look-up of the file and the download
Fetch(t) ==
    /\ task_pc[t] = "fetch"
    /\ \E outcome \in {"exists", "downloaded", "download_failed", "unexpected"} :
         Goto(t, IF outcome = "download_failed" THEN after_exception("download")
                 ELSE IF outcome = "unexpected" THEN after_exception("unexpected")
                 ELSE [pc |-> "log_download", arg |-> outcome])
    /\ UNCHANGED <<main_pc, task_items, session_filings, csv_rows, logger_lock, lock, report, callVars, sorted_keys>>
    /\ OtherUnchanged

\* toc_items = self.parser.parse_toc(html_content, filing_type)
ParseTocOfTask(t) ==
    /\ task_pc[t] = "parse_toc"
    /\ \E outcome \in {"found", "none", "raised"} :
         Goto(t, IF outcome = "raised" THEN after_exception("parse_toc")
                 ELSE [pc |-> "log_toc_detection", arg |-> outcome])
    /\ UNCHANGED <<main_pc, task_items, session_filings, csv_rows, logger_lock, lock, report, callVars, sorted_keys>>
    /\ OtherUnchanged

\* the loop over items_to_extract: the next section is extracted and its item
\* JSON saved (saved_items gets the task and the section), or that fails, or
\* the loop is over
ItemOfTask(t) ==
    /\ task_pc[t] = "items"
    /\ \/ /\ task_items[t] < Len(TaskSections)
          /\ \E ok \in BOOLEAN :
               /\ Goto(t, IF ok THEN [pc |-> "log_item_extraction", arg |-> "item_ok"]
                          ELSE after_exception("item"))
               /\ saved_items' = IF ok THEN saved_items \cup {<<t, TaskSections[task_items[t] + 1]>>}
                                 ELSE saved_items
          /\ task_items' = [task_items EXCEPT ![t] = @ + 1]
       \/ /\ Goto(t, [pc |-> "log_filing_complete", arg |-> "success"])
          /\ task_items' = task_items
          /\ saved_items' = saved_items
    /\ UNCHANGED <<main_pc, session_filings, csv_rows, logger_lock, lock, report, callVars, sorted_keys>>
    /\ UNCHANGED <<posVars, item_numbers, idx, extracted_items, filing_record, saved_xtr, tocVars,
                   outlineVars, filterVars, rowVars, num_tasks, max_workers>>

\* the calls of the logger that _extract_and_save_item makes inside
\* "with self.logger_lock:": log_item_extraction and the log line of the
\* outline step
UnderOuter(t) ==
    \/ task_pc[t] = "log_item_extraction"
    \/ task_pc[t] = "log_line" /\ task_arg[t] = "outline"

\* with self.logger_lock:
AcquireOuter(t) ==
    /\ UnderOuter(t)
    /\ logger_lock = Free
    /\ logger_lock' = t
    /\ UNCHANGED <<main_pc, task_pc, task_arg, task_items, session_filings, csv_rows, lock, report, callVars, sorted_keys>>
    /\ OtherUnchanged

\* the lock of the logger taken by a thread that is not yet inside
\* "with self.logger_lock:"
AcquireInner_before_outer(t) ==
    /\ task_pc[t] \in LoggerCalls
    /\ lock = Free
    /\ lock' = t
    /\ UNCHANGED <<main_pc, task_pc, task_arg, task_items, session_filings, csv_rows, logger_lock, report, callVars, sorted_keys>>
    /\ OtherUnchanged

\* with self.lock: at the start of a method of the logger
AcquireInner(t) ==
    /\ task_pc[t] \in LoggerCalls
    /\ UnderOuter(t) => logger_lock = t
    /\ lock = Free
    /\ lock' = t
    /\ UNCHANGED <<main_pc, task_pc, task_arg, task_items, session_filings, csv_rows, logger_lock, report, callVars, sorted_keys>>
    /\ OtherUnchanged

\* the body of the method of the logger, up to the release of its lock.
\* log_filing_complete ends with _write_csv_log_entry: the row is appended to
\* the CSV file, or writing fails and only a warning is logged.
LoggerUpdate(t) ==
    /\ lock = t
    /\ session_filings' = logger_update(session_filings, t, task_pc[t], task_arg[t])
    /\ \E csv_ok \in BOOLEAN :
         /\ task_pc[t] # "log_filing_complete" => csv_ok
         /\ csv_rows' = IF task_pc[t] = "log_filing_complete"
                        THEN csv_rows (+) SetToBag({[task |-> t, written |-> csv_ok]})
                        ELSE csv_rows
    /\ Goto(t, after_logger_call(task_pc[t], task_arg[t]))
    /\ lock' = Free
    /\ UNCHANGED <<main_pc, task_items, logger_lock, report, callVars, sorted_keys>>
    /\ OtherUnchanged

\* the end of the with block of logger_lock: after a section was logged as
\* extracted the outline step and its log line follow, else the next section
ReleaseOuter(t) ==
    /\ task_pc[t] = "release_outer"
    /\ logger_lock' = Free
    /\ Goto(t, IF task_arg[t] = "item_ok" THEN [pc |-> "log_line", arg |-> "outline"]
               ELSE [pc |-> "items", arg |-> None])
    /\ UNCHANGED <<main_pc, task_items, session_filings, csv_rows, lock, report, callVars, sorted_keys>>
    /\ OtherUnchanged

\* except Exception of process_filing: filing_record['errors'].append(...) begins
BeginAppendError(t) ==
    /\ task_pc[t] = "unexpected"
    /\ Goto(t, [pc |-> "appending", arg |-> "failure"])
    /\ UNCHANGED <<main_pc, task_items, session_filings, csv_rows, logger_lock, lock, report, callVars, sorted_keys>>
    /\ OtherUnchanged

\* ... and ends; log_filing_complete follows
FinishAppendError(t) ==
    /\ task_pc[t] = "appending"
    /\ session_filings' = [session_filings EXCEPT ![RecordOf(session_filings, t)].errors =
                              Append(@, [item |-> <<>>, error |-> "Unexpected error"])]
    /\ Goto(t, [pc |-> "log_filing_complete", arg |-> "failure"])
    /\ UNCHANGED <<main_pc, task_items, csv_rows, logger_lock, lock, report, callVars, sorted_keys>>
    /\ OtherUnchanged

\* the pool is left after every future is done (future.result() raises what
\* the task raised); the sequential loop ends, or is left by an exception
JoinTasks ==
    /\ main_pc \in {"pool", "sequential"}
    /\ \/ \A t \in TaskIds : task_pc[t] \in Final
       \/ main_pc = "sequential" /\ \E t \in TaskIds : task_pc[t] = "raised"
    /\ main_pc' = IF \E t \in TaskIds : task_pc[t] = "raised" THEN "aborted" ELSE "report"
    /\ UNCHANGED <<task_pc, task_arg, task_items, session_filings, csv_rows, logger_lock, lock, report, callVars, sorted_keys>>
    /\ OtherUnchanged

\* return self.logger.generate_report()
GenerateReport ==
    /\ main_pc = "report"
    /\ lock = Free
    /\ report' = [total_filings |-> Len(session_filings)]
    /\ main_pc' = "returned"
    /\ UNCHANGED <<task_pc, task_arg, task_items, session_filings, csv_rows, logger_lock, lock, callVars, sorted_keys>>
    /\ OtherUnchanged

TaskNext(t) ==
    /\ t \in TaskIds
    /\ t \in DOMAIN task_pc
    /\ \/ StartTask(t)
       \/ Resolve(t)
       \/ Fetch(t)
       \/ ParseTocOfTask(t)
       \/ ItemOfTask(t)
       \/ AcquireOuter(t)
       \/ AcquireInner(t)
       \/ LoggerUpdate(t)
       \/ ReleaseOuter(t)
       \/ BeginAppendError(t)
       \/ FinishAppendError(t)

MainNext == StartRun \/ JoinTasks \/ GenerateReport

NextRun == MainNext \/ \E t \in 1 .. MaxTasks : TaskNext(t)

\* every thread that can take a step is scheduled again and again
SpecRun ==
    /\ InitRun
    /\ [][NextRun]_vars
    /\ WF_vars(MainNext)
    /\ \A t \in 1 .. MaxTasks : WF_vars(TaskNext(t))

AllTasksReturned == \A t \in TaskIds : task_pc[t] \in Returned

\* C16: a run with several tasks always completes.  No task raises out of
\* process_filing, so none is cancelled or skipped; the report is generated
\* only when every task has returned; every task does return, and extract
\* returns its report, in the pool mode and in the sequential mode.
C16_RunCompletes ==
    /\ [](main_pc # "aborted" /\ \A t \in DOMAIN task_pc : task_pc[t] # "raised")
    /\ [](main_pc \in {"report", "returned"} => AllTasksReturned)
    /\ <>(main_pc = "returned" /\ AllTasksReturned)

\* a run of two tasks in the pool whose first task failed at the resolution
\* of its identifier and whose second task succeeded, with the report made
C16_Witness ==
    /\ main_pc = "returned"
    /\ num_tasks = 2
    /\ max_workers = 2
    /\ task_pc[1] = "returned_false"
    /\ RecordOf(session_filings, 1) = 0
    /\ task_pc[2] = "returned_true"

\* C17: after extract returns, the session log holds exactly one filing record
\* for each task, and each record was written by its own task only.
C17_OneRecordPerTask ==
    main_pc = "returned" =>
        /\ \A t \in TaskIds :
              Cardinality({ i \in 1 .. Len(session_filings) : session_filings[i].task = t }) = 1
        /\ report.total_filings = num_tasks

\* the threads that are inside an update of the session log
Updating == { t \in DOMAIN task_pc : lock = t \/ task_pc[t] = "appending" }

\* C18: every update of the session log is made by the holder of the lock of
\* the logger, so no two threads are inside an update at the same time.
C18_UpdatesUnderLock ==
    /\ \A t \in Updating : lock = t
    /\ Cardinality(Updating) <= 1

\* the calls of _extract_and_save_item in which the section was extracted and
\* saved and the outline step failed
DegradedCalls ==
    { k \in 1 .. Len(item_returns) :
        /\ Extractable(item_returns[k].item)
        /\ item_returns[k].save_ok
        /\ ~item_returns[k].outline_ok }

\* C19: when the outline step fails after a section was extracted and saved,
\* the call still returns success, a warning is logged, the item JSON is
\* there, the section is recorded as extracted and not as an error, and no
\* outline file is written by that call.
C19_PartialDegradation ==
    pc \in {"process_filing", "filing_done"} =>
        /\ \A k \in DegradedCalls :
              LET r == item_returns[k]
              IN  /\ r.success
                  /\ r.item \in saved_items
                  /\ r.item \in Range(filing_record.items_extracted)
                  /\ r.item \in Range(log_warnings)
                  /\ r.item \in saved_xtr =>
                        \E j \in 1 .. Len(item_returns) :
                            /\ item_returns[j].item = r.item
                            /\ item_returns[j].success
                            /\ item_returns[j].outline_ok
        /\ Len(log_warnings) = Cardinality(DegradedCalls)
        /\ Len(filing_record.items_extracted)
              = Cardinality({ k \in 1 .. Len(item_returns) : item_returns[k].success })
        /\ Len(filing_record.errors)
              = Cardinality({ k \in 1 .. Len(item_returns) : ~item_returns[k].success })

\* a finished filing with a section whose outline step failed and a second
\* section handled after it
C19_Witness ==
    /\ pc = "filing_done"
    /\ Len(item_returns) = 2
    /\ 1 \in DegradedCalls
    /\ item_returns[1].item \notin saved_xtr
    /\ item_returns[1].item \in saved_items
    /\ item_returns[2].success

(***************************************************************************)
(* The order in which get_item_positions walks the sections:               *)
(* sorted_items = sorted(toc_items.keys(), key=item_sort_key).             *)
(***************************************************************************)
MaxKeys == 5

SortIds == { <<"1">>, <<"0", "1">>, <<"1", "A">>, <<"1", "B">>, <<"2">>, <<"1", "0">> }

\* list(toc_items.keys()): the identifiers in the order the dict received them
KeyLists == { s \in SeqsUpTo(SortIds, MaxKeys) : Cardinality(Range(s)) = Len(s) }

\* sorted(keys, key=item_sort_key): the sort is stable, an entry goes behind
\* every earlier entry whose key is not greater than its own
RECURSIVE stable_sorted(_)
stable_sorted(keys) ==
    IF keys = <<>> THEN <<>>
    ELSE LET front == stable_sorted(SubSeq(keys, 1, Len(keys) - 1))
             item  == keys[Len(keys)]
             n     == Cardinality({ k \in 1 .. Len(front) :
                          ~KeyLess(item_sort_key(item), item_sort_key(front[k])) })
         IN  SubSeq(front, 1, n) \o << item >> \o SubSeq(front, n + 1, Len(front))

InitSort ==
    /\ IdleItems
    /\ IdleToc
    /\ IdleOutline
    /\ IdleFilter
    /\ IdleRow
    /\ IdleRun
    /\ IdleCalls
    /\ sorted_keys \in KeyLists
    /\ html_content = <<>>
    /\ toc_items = [i \in Range(sorted_keys) |-> AnchorEntry(i, None)]
    /\ positions = NoValue
    /\ item_result = NoValue
    /\ req_item = None
    /\ pc = "sort"

\* sorted_items = sorted(toc_items.keys(), key=item_sort_key)
SortKeys ==
    /\ pc = "sort"
    /\ sorted_keys' = stable_sorted(sorted_keys)
    /\ pc' = "sorted"
    /\ UNCHANGED <<html_content, toc_items, positions, item_result, req_item, itemVars, tocVars,
                   outlineVars, filterVars, rowVars, runVars, callVars>>

NextSort == SortKeys

SpecSort == InitSort /\ [][NextSort]_vars

\* the integer an identifier starts with and the letter after it ("" if none)
NumberOf(item) ==
    CASE item \in {<<"1">>, <<"0", "1">>, <<"1", "A">>, <<"1", "B">>} -> 1
      [] item = <<"2">> -> 2
      [] item = <<"1", "0">> -> 10

LetterOf(item) == IF item[Len(item)] \in Digits THEN "" ELSE item[Len(item)]

\* '' < 'A' < 'B'
LetterBefore(a, b) == (a = "" /\ b # "") \/ (a = "A" /\ b = "B")

\* C20: the sections are walked in ascending order of (integer, letter): the
\* sorted list holds every identifier once, each entry comes before the next
\* by the integer, or has the same integer and a letter that is not greater,
\* and "1" < "1A" < "1B" < "2" < "10".
C20_AscendingKeyOrder ==
    pc = "sorted" =>
        /\ Len(sorted_keys) = Cardinality(DOMAIN toc_items)
        /\ Range(sorted_keys) = DOMAIN toc_items
        /\ \A k \in 1 .. Len(sorted_keys) - 1 :
              \/ NumberOf(sorted_keys[k]) < NumberOf(sorted_keys[k + 1])
              \/ /\ NumberOf(sorted_keys[k]) = NumberOf(sorted_keys[k + 1])
                 /\ ~LetterBefore(LetterOf(sorted_keys[k + 1]), LetterOf(sorted_keys[k]))
        /\ DOMAIN toc_items = { <<"1">>, <<"1", "A">>, <<"1", "B">>, <<"2">>, <<"1", "0">> } =>
              sorted_keys = << <<"1">>, <<"1", "A">>, <<"1", "B">>, <<"2">>, <<"1", "0">> >>

\* the identifiers of the example, sorted
C20_Witness ==
    /\ pc = "sorted"
    /\ DOMAIN toc_items = { <<"1">>, <<"1", "A">>, <<"1", "B">>, <<"2">>, <<"1", "0">> }
    /\ Len(sorted_keys) = 5

(***************************************************************************)
(* Placement of a heading by _build_hierarchy                              *)
(***************************************************************************)
HeadingNodes == { n \in NodeIds : nodes[n].type = "heading" }

\* the headings processed before n that are shallower than n
ShallowerBefore(n) == { m \in HeadingNodes : m < n /\ nodes[m].layer < nodes[n].layer }

\* C21: every heading node is a child of the nearest earlier heading that is
\* strictly shallower, or a root when there is none; it was appended as the
\* last child (children and roots are in processing order); the open-heading
\* stack holds no two entries of which the lower is as deep as the upper, each
\* entry is a child of the one below, and while the elements are processed
\* the heading processed last is the top of the stack.
C21_HeadingPlacement ==
    Building \/ pc \in {"hierarchy_done", "outline_done"} =>
        /\ \A n \in HeadingNodes :
              IF ShallowerBefore(n) = {}
              THEN TimesIn(structure, n) = 1 /\ Owners(n) = {}
              ELSE Owners(n) = {Max(ShallowerBefore(n))} /\ TimesIn(structure, n) = 0
        /\ \A p \in HeadingNodes : \A k \in 1 .. Len(nodes[p].children) - 1 :
              nodes[p].children[k] < nodes[p].children[k + 1]
        /\ \A k \in 1 .. Len(structure) - 1 : structure[k] < structure[k + 1]
        /\ \A k \in 1 .. Len(heading_stack) - 1 :
              /\ nodes[heading_stack[k]].layer < nodes[heading_stack[k + 1]].layer
              /\ heading_stack[k] \in Owners(heading_stack[k + 1])
        /\ heading_stack # <<>> => TimesIn(structure, heading_stack[1]) = 1
        /\ HeadingNodes # {} =>
              /\ heading_stack # <<>>
              /\ heading_stack[Len(heading_stack)] = Max(HeadingNodes)

\* a heading of layer 2 that closed an open layer-2 heading and its layer-3
\* child, and became the second child of the open layer-1 heading
C21_Witness ==
    /\ Building
    /\ Len(nodes) = 4
    /\ nodes[1].layer = 1
    /\ nodes[2].layer = 2
    /\ nodes[3].layer = 3
    /\ nodes[4].layer = 2
    /\ heading_stack = <<1, 4>>
    /\ nodes[1].children = <<2, 4>>

(***************************************************************************)
(* Requested sections that are not keys of the anchor mapping              *)
(***************************************************************************)
\* the section identifiers named by the errors of the filing record
ErrorItems == { filing_record.errors[k].item : k \in 1 .. Len(filing_record.errors) }

C23_RangesWellFormed ==
    Positioned =>
        \A item \in DOMAIN positions :
            /\ 0 <= StartOf(item)
            /\ StartOf(item) <= EndOf(item)
            /\ EndOf(item) <= Len(html_content)

\* two sections adjacent in sorted order whose anchors occur in the opposite
\* order in the document, both with a range, and a marker before the last one
C23_Witness ==
    /\ Positioned
    /\ \E i \in 1 .. (Len(SortedToc) - 1) :
          /\ SortedToc[i] \in DOMAIN positions
          /\ SortedToc[i + 1] \in DOMAIN positions
          /\ StartOf(SortedToc[i + 1]) < StartOf(SortedToc[i])
          /\ StartOf(SortedToc[i]) < EndOf(SortedToc[i])
          /\ i + 1 = Len(SortedToc)
          /\ \E p \in 1 .. Len(html_content) :
                /\ html_content[p] = "id_sig"
                /\ p - 1 < StartOf(SortedToc[i + 1])

\* the offsets of the half-open interval [start, end) of a section
Offsets(item) == { p \in 0 .. Len(html_content) : StartOf(item) <= p /\ p < EndOf(item) }

\* C24: the ranges of two different sections never overlap: their half-open
\* intervals [start, end) have no offset in common.
C24_RangesDisjoint ==
    Positioned =>
        \A a \in DOMAIN positions : \A b \in DOMAIN positions \ {a} :
            Offsets(a) \cap Offsets(b) = {}

(***************************************************************************)
(* Body elements after the first heading                                   *)
(***************************************************************************)
\* the node of the heading that is open when element i is processed: the
\* number of headings before i (0 when there is none)
OwnerOf(i) == Cardinality({ j \in HeadingPositions : j < i })

\* the body elements processed so far that node n should hold
BodiesOf(n) == { i \in 1 .. elem_idx : ~elements[i].is_heading /\ OwnerOf(i) = n }

\* the number of atoms of the contents of the elements in S
RECURSIVE ContentAtoms(_)
ContentAtoms(S) ==
    IF S = {} THEN 0
    ELSE LET i == CHOOSE x \in S : TRUE
         IN  Len(elements[i].content) + ContentAtoms(S \ {i})

Separators(body) == Cardinality({ k \in 1 .. Len(body) : body[k] = " " })

\* C25: once a heading has been processed the open-heading stack is not
\* empty and its top is the node of the heading processed last; every body
\* element after the first heading is in the body of the node that was open
\* when it was processed, and in that node only: each body holds exactly the
\* atoms of its own elements, once, with one separator between two elements.
C25_BodiesAfterFirstHeading ==
    Building \/ pc \in {"hierarchy_done", "outline_done"} =>
        /\ HeadingPositions # {} =>
              /\ heading_stack # <<>>
              /\ heading_stack[Len(heading_stack)] = Cardinality(HeadingPositions)
        /\ \A i \in 1 .. elem_idx :
              ~elements[i].is_heading /\ OwnerOf(i) > 0 =>
                  Contains(nodes[OwnerOf(i)].body, elements[i].content)
        /\ \A n \in HeadingNodes :
              /\ Len(nodes[n].body) - Separators(nodes[n].body) = ContentAtoms(BodiesOf(n))
              /\ Separators(nodes[n].body) =
                    IF BodiesOf(n) = {} THEN 0 ELSE Cardinality(BodiesOf(n)) - 1

\* a heading that closed every open heading, each of the two with a body
\* element of its own
C25_Witness ==
    /\ Building
    /\ elem_idx = Len(elements)
    /\ Len(nodes) = 2
    /\ nodes[2].layer <= nodes[1].layer
    /\ heading_stack = <<2>>
    /\ Cardinality(BodiesOf(1)) = 1
    /\ Cardinality(BodiesOf(2)) = 1
    /\ nodes[1].body # nodes[2].body

(***************************************************************************)
(* Blocks nested in blocks                                                 *)
(***************************************************************************)
\* how often the text atom occurs in the bodies of the forest
RECURSIVE OccurrencesInBodies(_, _)
OccurrencesInBodies(atom, n) ==
    IF n = 0 THEN 0
    ELSE Cardinality({ k \in 1 .. Len(nodes[n].body) : nodes[n].body[k] = atom })
            + OccurrencesInBodies(atom, n - 1)

\* how often the text atom occurs in the markup of the section
OccurrencesInSection(atom) ==
    Cardinality({ i \in 1 .. Len(section_divs) : section_divs[i].text = atom })
        + (IF loose_text = atom THEN 1 ELSE 0)

\* C26: the text of a block is in the bodies of the returned forest at most
\* once: no text occurs more often in the bodies than in the markup.
C26_BlockTextAtMostOnce ==
    pc = "outline_done" =>
        \A i \in 1 .. Len(section_divs) :
            section_divs[i].text \notin {"", " "} =>
                OccurrencesInBodies(section_divs[i].text, Len(nodes))
                    <= OccurrencesInSection(section_divs[i].text)

(***************************************************************************)
(* The page-break token in the output of _strip_headers_footers            *)
(***************************************************************************)
\* C27: the text returned by _strip_headers_footers holds no page-break token.
C27_NoPageBreakInOutput ==
    pc = "filter_done" =>
        \A k \in 1 .. Len(filter_result) : filter_result[k] # page_break_marker

(***************************************************************************)
(* Order of the stages of process_filing, as seen in the filing record     *)
(***************************************************************************)
\* C28: at every point of a run, a section is in items_extracted of a filing
\* record only if the document of that filing was obtained (downloaded or
\* skipped_download), its table of contents was found, and the item JSON of
\* the section had been saved by that task.
C28_PipelineOrder ==
    \A i \in 1 .. Len(session_filings) :
        \A k \in 1 .. Len(session_filings[i].items_extracted) :
            /\ session_filings[i].downloaded \/ session_filings[i].skipped_download
            /\ session_filings[i].toc_found
            /\ <<session_filings[i].task, session_filings[i].items_extracted[k]>> \in saved_items

\* a run of two filings: one has a section extracted from a file that was
\* already there, the other failed at the download
C28_Witness ==
    /\ main_pc = "returned"
    /\ Len(session_filings) = 2
    /\ \E i, j \in 1 .. 2 :
          /\ session_filings[i].items_extracted # <<>>
          /\ session_filings[i].skipped_download
          /\ session_filings[i].status = "completed"
          /\ ~session_filings[j].downloaded
          /\ session_filings[j].items_extracted = <<>>
          /\ session_filings[j].errors # <<>>

(***************************************************************************)
(* Completion of the filing records                                        *)
(***************************************************************************)
\* the rows of the CSV log written for task t, and the failed attempts
CsvRowsOf(t) == CopiesIn([task |-> t, written |-> TRUE], csv_rows)
CsvFailuresOf(t) == CopiesIn([task |-> t, written |-> FALSE], csv_rows)

\* C29 (as claimed): every started filing record is completed exactly once:
\* no CSV row exists while it is in progress, exactly one CSV row is written
\* for it when it is completed, a task that has left process_filing has a
\* completed record, and no record is in progress after extract returned.
C29_CompletedOnceAsClaimed ==
    /\ \A i \in 1 .. Len(session_filings) :
          LET r == session_filings[i]
          IN  /\ r.status = "in_progress" => CsvRowsOf(r.task) = 0
              /\ r.status = "completed" => CsvRowsOf(r.task) = 1
              /\ task_pc[r.task] \in Final => r.status = "completed"
    /\ main_pc = "returned" =>
          \A i \in 1 .. Len(session_filings) : session_filings[i].status = "completed"

\* C29 (amended): every started filing record is completed exactly once:
\* log_filing_complete has not run while it is in progress and has run once
\* when it is completed; that one call wrote one CSV row, or failed to write
\* it and logged a warning, so there is at most one row per record; a task
\* that has left process_filing has a completed record, and no record is in
\* progress after extract returned.
C29_CompletedOnce ==
    /\ \A i \in 1 .. Len(session_filings) :
          LET r == session_filings[i]
          IN  /\ r.status = "in_progress" => CsvRowsOf(r.task) + CsvFailuresOf(r.task) = 0
              /\ r.status = "completed" => CsvRowsOf(r.task) + CsvFailuresOf(r.task) = 1
              /\ task_pc[r.task] \in Final => r.status = "completed"
    /\ main_pc = "returned" =>
          \A i \in 1 .. Len(session_filings) : session_filings[i].status = "completed"

\* a finished run of two filings: one ended in the handler of unexpected
\* exceptions and has its CSV row, the other succeeded and its row failed
C29_Witness ==
    /\ main_pc = "returned"
    /\ Len(session_filings) = 2
    /\ \E i, j \in 1 .. 2 :
          /\ \E k \in 1 .. Len(session_filings[i].errors) :
                session_filings[i].errors[k].error = "Unexpected error"
          /\ CsvRowsOf(session_filings[i].task) = 1
          /\ session_filings[j].items_extracted # <<>>
          /\ CsvRowsOf(session_filings[j].task) = 0
          /\ CsvFailuresOf(session_filings[j].task) = 1

(***************************************************************************)
(* The two locks: logger_lock of ItemXtractor (outer) and lock of          *)
(* ExtractionLogger (inner)                                                *)
(***************************************************************************)
Started(t) == t \in DOMAIN task_pc

\* thread t is at "with self.logger_lock:" and does not hold it yet
RequestsOuter(t) == Started(t) /\ UnderOuter(t) /\ logger_lock # t

\* thread t is at "with self.lock:" of a method of the logger
RequestsInner(t) ==
    /\ Started(t)
    /\ task_pc[t] \in LoggerCalls
    /\ lock # t
    /\ UnderOuter(t) => logger_lock = t

\* C30: the locks are taken in the order outer, then inner: a thread that
\* requests the outer lock holds neither lock, the inner lock is held only
\* inside a method of the logger, and inside "with self.logger_lock:" only by
\* the holder of the outer lock.  A thread that requested a lock leaves that
\* position only by getting the lock, and every run reaches the point where
\* no request is pending, both locks are free and the report is returned: so
\* every thread that requests a lock gets it, and no run deadlocks.
C30_NoDeadlock ==
    /\ [](\A t \in 1 .. MaxTasks :
            /\ RequestsOuter(t) => lock # t
            /\ Started(t) /\ lock = t => task_pc[t] \in LoggerCalls
            /\ Started(t) /\ lock = t /\ UnderOuter(t) => logger_lock = t
            /\ Started(t) /\ logger_lock = t => UnderOuter(t) \/ task_pc[t] = "release_outer")
    /\ [][\A t \in 1 .. MaxTasks :
            /\ RequestsOuter(t) /\ ~RequestsOuter(t)' => logger_lock' = t
            /\ RequestsInner(t) /\ ~RequestsInner(t)' => lock' = t]_vars
    /\ <>[](/\ main_pc = "returned"
            /\ lock = Free
            /\ logger_lock = Free
            /\ \A t \in 1 .. MaxTasks : ~RequestsOuter(t) /\ ~RequestsInner(t))

\* a thread inside "with self.logger_lock:" waits for the lock of the logger
\* while another thread holds it in a call that needs no outer lock
C30_Witness ==
    /\ num_tasks = 2
    /\ main_pc = "pool"
    /\ \E t, u \in TaskIds :
          /\ t # u
          /\ logger_lock = t
          /\ RequestsInner(t)
          /\ lock = u
          /\ ~UnderOuter(u)

====
